---- MODULE Spec2Model ----
(***************************************************************************)
(* Insight generation and history pipeline of the Pharmis server           *)
(* (src/server/index.js): POST /api/insights/generate,                     *)
(* GET /api/insights/history, the insight extractor and the keyword        *)
(* classifier, over the health_insights, daily_logs and lifestyle_logs     *)
(* tables.                                                                 *)
(*                                                                         *)
(* Text is a sequence of one-character strings, so that the regular        *)
(* expressions, split, trim and slice of the source are computed and not   *)
(* assumed.  Calendar dates are the strings "2024-01-DD": the model's      *)
(* calendar is January 2024, its day numbers are days of that month.       *)
(***************************************************************************)
EXTENDS Integers, Sequences, FiniteSets, TLC

\* ------------------------------------------------------------------------
\* Bounds of the model
\* ------------------------------------------------------------------------

\* Number of requests (generate or history) issued in one behaviour.
MaxCalls == 2

\* Number of requests the server is handling at the same time.
MaxInFlight == 2

\* Number of POST /api/logs and POST /api/lifestyle writes in one behaviour.
MaxLogWrites == 1

\* Number of database queries that fail in one behaviour.
MaxFaults == 1

\* Number of times the Health Insights page calls fetchData in one behaviour.
MaxFetches == 3

\* ------------------------------------------------------------------------
\* Program constants
\* ------------------------------------------------------------------------

\* title.trim().slice(0, 255)
TitleMax == 255

\* content.slice(0, 10000)
ContentMax == 10000

\* content.length > 10
MinContentLen == 10

\* cleanLine.length > 20
MinLineLen == 20

\* windowStart.setDate(windowStart.getDate() - 6)
WindowBack == 6

\* parseInt(req.query.days) || 7
DefaultDays == 7

\* ------------------------------------------------------------------------
\* Characters and strings
\* ------------------------------------------------------------------------

Null == [null |-> TRUE]

MinOf(S) == CHOOSE x \in S : \A y \in S : x <= y

MaxOf(S) == CHOOSE x \in S : \A y \in S : x >= y

UpperCase == <<"A", "B", "C", "D", "E", "F", "G", "H", "I", "J", "K", "L", "M", "N", "O", "P", "Q", "R", "S", "T", "U", "V", "W", "X", "Y", "Z">>

LowerCase == <<"a", "b", "c", "d", "e", "f", "g", "h", "i", "j", "k", "l", "m", "n", "o", "p", "q", "r", "s", "t", "u", "v", "w", "x", "y", "z">>

Digits == <<"0", "1", "2", "3", "4", "5", "6", "7", "8", "9">>

IsDigit(c) == \E i \in 1..10 : Digits[i] = c

DigitValue(c) == (CHOOSE i \in 1..10 : Digits[i] = c) - 1

\* String.prototype.trim strips these
IsSpace(c) == c \in {" ", "\t", "\r", "\n"}

\* the lower-case letter of each upper-case letter
UpperToLower ==
    [c \in {UpperCase[i] : i \in 1..26} |-> LowerCase[CHOOSE i \in 1..26 : UpperCase[i] = c]]

LowerChar(c) == IF c \in DOMAIN UpperToLower THEN UpperToLower[c] ELSE c

toLowerCase(s) == SubSeq([i \in 1..Len(s) |-> LowerChar(s[i])], 1, Len(s))

\* slice that keeps the whole string
sliceWhole(s, n) == s

\* s.slice(0, n)
slice(s, n) == IF Len(s) <= n THEN s ELSE SubSeq(s, 1, n)

\* s.includes(pat)
includes(s, pat) ==
    \E i \in 1..(Len(s) - Len(pat) + 1) : \A j \in 1..Len(pat) : s[i + j - 1] = pat[j]

\* /pat/i.test(s) for a literal pattern
testI(s, pat) == includes(toLowerCase(s), toLowerCase(pat))

\* /^pat$/i.test(s) for a literal pattern
testWholeI(s, pat) == toLowerCase(s) = toLowerCase(pat)

RECURSIVE skipLeading(_, _, _)
\* index of the first character of s, from i on, that is not in chars
skipLeading(s, i, chars) ==
    IF i <= Len(s) /\ s[i] \in chars THEN skipLeading(s, i + 1, chars) ELSE i

RECURSIVE skipTrailing(_, _, _)
\* index of the last character of s, up to i, that is not in chars
skipTrailing(s, i, chars) ==
    IF i >= 1 /\ s[i] \in chars THEN skipTrailing(s, i - 1, chars) ELSE i

\* s without its leading and trailing characters of chars
strip(s, chars) ==
    LET from == skipLeading(s, 1, chars)
        to   == skipTrailing(s, Len(s), chars)
    IN  IF from > to THEN <<>> ELSE SubSeq(s, from, to)

\* s.trim()
trim(s) == strip(s, {" ", "\t", "\r", "\n"})

\* s.replace(/^c+|c+$/g, '')
stripRuns(s, c) == strip(s, {c})

RECURSIVE split(_, _)
\* s.split(c) for a one-character separator
split(s, c) ==
    LET at == {i \in 1..Len(s) : s[i] = c}
    IN  IF at = {} THEN <<s>>
        ELSE <<SubSeq(s, 1, MinOf(at) - 1)>>
                 \o split(SubSeq(s, MinOf(at) + 1, Len(s)), c)

\* /\d{2}:\d{2}/.test(s)
testClockTime(s) ==
    \E i \in 1..(Len(s) - 4) :
        /\ IsDigit(s[i]) /\ IsDigit(s[i + 1]) /\ s[i + 2] = ":"
        /\ IsDigit(s[i + 3]) /\ IsDigit(s[i + 4])

\* index after the longest run of digits of s that starts at i
RECURSIVE skipDigits(_, _)
skipDigits(s, i) ==
    IF i <= Len(s) /\ IsDigit(s[i]) THEN skipDigits(s, i + 1) ELSE i

startsAt(s, i, pat) ==
    /\ i + Len(pat) - 1 <= Len(s)
    /\ \A j \in 1..Len(pat) : s[i + j - 1] = pat[j]

\* /here are \d+-?\d* concrete, actionable, context-aware insights/i.test(s)
testPreamble(s) ==
    LET l    == toLowerCase(s)
        head == <<"h", "e", "r", "e", " ", "a", "r", "e", " ">>
        tail == <<" ", "c", "o", "n", "c", "r", "e", "t", "e", ",", " ", "a", "c", "t", "i", "o", "n", "a", "b", "l", "e", ",", " ", "c", "o", "n", "t", "e", "x", "t", "-", "a", "w", "a", "r", "e", " ", "i", "n", "s", "i", "g", "h", "t", "s">>
    IN  \E i \in 1..Len(s) :
            /\ startsAt(l, i, head)
            /\ LET a == i + Len(head)
                   b == skipDigits(l, a)
                   c == IF b <= Len(l) /\ l[b] = "-" THEN skipDigits(l, b + 1) ELSE b
               IN  b > a /\ (startsAt(l, b, tail) \/ startsAt(l, c, tail))

\* /^here (is|are) (the )?generated health insights:?$/i.test(s)
testGeneratedHeader(s) ==
    \E verb \in {<<"i", "s">>, <<"a", "r", "e">>}, the \in {<<>>, <<"t", "h", "e", " ">>}, colon \in {<<>>, <<":">>} :
        toLowerCase(s) = <<"h", "e", "r", "e", " ">> \o verb \o <<" ">> \o the
                             \o <<"g", "e", "n", "e", "r", "a", "t", "e", "d", " ", "h", "e", "a", "l", "t", "h", " ", "i", "n", "s", "i", "g", "h", "t", "s">> \o colon

\* the filter of lines 1364-1371: TRUE for a line that is kept
keepLine(line) ==
    /\ Len(line) > 0
    /\ ~(testI(line, <<"G", "M", "T">>) \/ testI(line, <<"I", "S", "T">>)
           \/ testI(line, <<"S", "t", "a", "n", "d", "a", "r", "d", " ", "T", "i", "m", "e">>) \/ testClockTime(line))
    /\ ~testPreamble(line)
    /\ ~testI(line, <<"f", "o", "r", " ", "t", "h", "e", " ", "7", "-", "d", "a", "y", " ", "w", "i", "n", "d", "o", "w", " ", "e", "n", "d", "i", "n", "g">>)
    /\ ~testI(line, <<"A", "I", " ", "H", "e", "a", "l", "t", "h", " ", "I", "n", "s", "i", "g", "h", "t">>)
    /\ ~testI(line, <<"a", "s", " ", "a", " ", "p", "r", "o", "f", "e", "s", "s", "i", "o", "n", "a", "l", " ", "h", "e", "a", "l", "t", "h", "c", "a", "r", "e", " ", "i", "n", "s", "i", "g", "h", "t", "s">>)
    /\ ~testGeneratedHeader(line)
    /\ ~(testWholeI(line, <<"i", "n", "s", "i", "g", "h", "t">>) \/ testWholeI(line, <<"i", "n", "s", "i", "g", "h", "t", ":">>))

\* line.replace(/^\*+|\*+$/g, '').replace(/^_+|_+$/g, '')
cleanLine(line) == stripRuns(stripRuns(line, "*"), "_")

\* const [title, ...contentParts] = cleanLine.split(':')
titleOf(line) == split(cleanLine(line), ":")[1]

\* contentOf keeping only what stands between the first two colons
contentOfSecondPart(line) ==
    LET parts == split(cleanLine(line), ":")
    IN  IF Len(parts) < 2 THEN <<>> ELSE trim(parts[2])

\* contentParts.join(':').trim()
contentOf(line) ==
    LET cl == cleanLine(line)
        t  == titleOf(line)
    IN  IF Len(t) = Len(cl) THEN <<>> ELSE trim(SubSeq(cl, Len(t) + 2, Len(cl)))

\* the condition of lines 1379-1384
acceptsPair(line) ==
    /\ Len(titleOf(line)) > 0
    /\ Len(contentOf(line)) > 0
    /\ Len(contentOf(line)) > MinContentLen
    /\ ~testWholeI(contentOf(line), <<"h", "e", "r", "e", " ", "i", "s", " ", "t", "h", "e", " ", "i", "n", "s", "i", "g", "h", "t">>)
    /\ ~testWholeI(titleOf(line), <<"i", "n", "s", "i", "g", "h", "t">>)
    /\ ~testWholeI(titleOf(line), <<"h", "e", "r", "e", " ", "i", "s", " ", "t", "h", "e", " ", "i", "n", "s", "i", "g", "h", "t">>)

\* acceptsPlainLine without the test for the phrases
acceptsPlainLineAnyPhrase(line) == Len(cleanLine(line)) > MinLineLen

\* the condition of lines 1391-1394
acceptsPlainLine(line) ==
    /\ Len(cleanLine(line)) > MinLineLen
    /\ ~(\/ testI(cleanLine(line), <<"n", "o", " ", "a", "c", "t", "i", "o", "n", "a", "b", "l", "e", " ", "h", "e", "a", "l", "t", "h", " ", "i", "n", "s", "i", "g", "h", "t">>)
         \/ testI(cleanLine(line), <<"n", "o", " ", "h", "e", "a", "l", "t", "h", " ", "o", "r", " ", "l", "i", "f", "e", "s", "t", "y", "l", "e", " ", "d", "a", "t", "a">>)
         \/ testI(cleanLine(line), <<"n", "o", "t", " ", "e", "n", "o", "u", "g", "h", " ", "d", "a", "t", "a">>)
         \/ testI(cleanLine(line), <<"i", "n", "s", "u", "f", "f", "i", "c", "i", "e", "n", "t", " ", "d", "a", "t", "a">>)
         \/ testI(cleanLine(line), <<"n", "o", " ", "d", "a", "t", "a">>)
         \/ testI(cleanLine(line), <<"h", "e", "r", "e", " ", "i", "s", " ", "t", "h", "e", " ", "i", "n", "s", "i", "g", "h", "t">>))

\* aiAnalysis.split('\n').map(line => line.trim()).filter(...)
candidateLines(aiAnalysis) ==
    LET raw == split(aiAnalysis, "\n")
    IN  SelectSeq([i \in 1..Len(raw) |-> trim(raw[i])], keepLine)

extractActionableInsight(aiAnalysis) ==
    IF Len(aiAnalysis) = 0 THEN Null
    ELSE
      LET lines  == candidateLines(aiAnalysis)
          pairs  == {i \in 1..Len(lines) : acceptsPair(lines[i])}
          plains == {i \in 1..Len(lines) : acceptsPlainLine(lines[i])}
      IN  IF pairs # {}
          THEN [title   |-> slice(trim(titleOf(lines[MinOf(pairs)])), TitleMax),
                content |-> slice(contentOf(lines[MinOf(pairs)]), ContentMax)]
          ELSE IF plains # {}
          THEN [title   |-> <<"H", "e", "a", "l", "t", "h", " ", "I", "n", "s", "i", "g", "h", "t">>,
                content |-> slice(cleanLine(lines[MinOf(plains)]), ContentMax)]
          ELSE Null

\* determineCategory with the exercise rule tried before the sleep rule
determineCategoryExerciseFirst(insight) ==
    LET lowerInsight == toLowerCase(insight)
    IN  IF includes(lowerInsight, <<"e", "x", "e", "r", "c", "i", "s", "e">>) \/ includes(lowerInsight, <<"a", "c", "t", "i", "v", "i", "t", "y">>)
        THEN "Exercise"
        ELSE IF includes(lowerInsight, <<"s", "l", "e", "e", "p">>) THEN "Sleep"
        ELSE IF includes(lowerInsight, <<"w", "a", "t", "e", "r">>) \/ includes(lowerInsight, <<"h", "y", "d", "r", "a", "t", "i", "o", "n">>)
        THEN "Hydration"
        ELSE IF includes(lowerInsight, <<"m", "o", "o", "d">>) \/ includes(lowerInsight, <<"e", "m", "o", "t", "i", "o", "n", "a", "l">>)
        THEN "Mood"
        ELSE IF includes(lowerInsight, <<"s", "y", "m", "p", "t", "o", "m">>) \/ includes(lowerInsight, <<"p", "a", "i", "n">>)
        THEN "Symptoms"
        ELSE IF includes(lowerInsight, <<"m", "e", "d", "i", "c", "a", "t", "i", "o", "n">>) \/ includes(lowerInsight, <<"m", "e", "d", "i", "c", "i", "n", "e">>)
        THEN "Medication"
        ELSE "General"

determineCategory(insight) ==
    LET lowerInsight == toLowerCase(insight)
    IN  IF includes(lowerInsight, <<"s", "l", "e", "e", "p">>) THEN "Sleep"
        ELSE IF includes(lowerInsight, <<"e", "x", "e", "r", "c", "i", "s", "e">>) \/ includes(lowerInsight, <<"a", "c", "t", "i", "v", "i", "t", "y">>)
        THEN "Exercise"
        ELSE IF includes(lowerInsight, <<"w", "a", "t", "e", "r">>) \/ includes(lowerInsight, <<"h", "y", "d", "r", "a", "t", "i", "o", "n">>)
        THEN "Hydration"
        ELSE IF includes(lowerInsight, <<"m", "o", "o", "d">>) \/ includes(lowerInsight, <<"e", "m", "o", "t", "i", "o", "n", "a", "l">>)
        THEN "Mood"
        ELSE IF includes(lowerInsight, <<"s", "y", "m", "p", "t", "o", "m">>) \/ includes(lowerInsight, <<"p", "a", "i", "n">>)
        THEN "Symptoms"
        ELSE IF includes(lowerInsight, <<"m", "e", "d", "i", "c", "a", "t", "i", "o", "n">>) \/ includes(lowerInsight, <<"m", "e", "d", "i", "c", "i", "n", "e">>)
        THEN "Medication"
        ELSE "General"

\* ------------------------------------------------------------------------
\* Calendar dates and the JavaScript Date arithmetic of the window start
\* ------------------------------------------------------------------------

\* /^\d{4}-\d{2}-\d{2}$/.test(date)
DateFormatOK(date) ==
    /\ Len(date) = 10
    /\ \A i \in {1, 2, 3, 4, 6, 7, 9, 10} : IsDigit(date[i])
    /\ date[5] = "-" /\ date[8] = "-"

TwoDigits(s, i) == 10 * DigitValue(s[i]) + DigitValue(s[i + 1])

\* new Date(date) is a valid time value
IsCalendarDate(date) ==
    /\ DateFormatOK(date)
    /\ TwoDigits(date, 6) \in 1..12
    /\ TwoDigits(date, 9) \in 1..31

\* day number of a date of January 2024
DayNumber(date) == TwoDigits(date, 9)

\* 'YYYY-MM-DD' of a day number of January 2024; the days before the 1st
\* are the last days of December 2023
FormatDay(n) ==
    IF n >= 1
    THEN <<"2", "0", "2", "4", "-", "0", "1", "-">> \o <<Digits[(n \div 10) + 1], Digits[(n % 10) + 1]>>
    ELSE <<"2", "0", "2", "3", "-", "1", "2", "-">> \o <<Digits[((31 + n) \div 10) + 1], Digits[((31 + n) % 10) + 1]>>

\* d.setDate(d.getDate() - n): the local calendar day moves, the local
\* time of day stays; t and the result are hours since 2024-01-00T00:00Z
setDateBack(t, n, offset) ==
    LET local == t + offset
        day   == local \div 24
        hour  == local % 24
    IN  (day - n) * 24 + hour - offset

\* d.toISOString().slice(0, 10)
toISODate(t) == FormatDay(t \div 24)

\* the window start one day earlier than lines 1572-1574 compute it
generateWindowStartEarly(date, offset) ==
    toISODate(setDateBack(24 * DayNumber(date), WindowBack + 1, offset))

\* lines 1572-1574: new Date(date) is midnight UTC
generateWindowStart(date, offset) ==
    toISODate(setDateBack(24 * DayNumber(date), WindowBack, offset))

\* a window that begins after the date: setDate(getDate() + 6)
historyWindowStartForward(date, offset) == FormatDay(DayNumber(date) + WindowBack)

\* lines 1433-1437: new Date(date + 'T00:00:00') is midnight local time
historyWindowStart(date, offset) ==
    toISODate(setDateBack(24 * DayNumber(date) - offset, WindowBack, offset))

\* generated_date taken from the day of the request instead of the date
midnightOfToday(date) == <<"2", "0", "2", "4", "-", "0", "1", "-", "1", "5", " ", "0", "0", ":", "0", "0", ":", "0", "0">>

\* date + ' 00:00:00'
midnight(date) == date \o <<" ", "0", "0", ":", "0", "0", ":", "0", "0">>

\* the comparison of line 1328 without DATE(): the stored timestamp itself
DATETIME(generated_date) == generated_date

\* DATE(generated_date)
DATE(generated_date) == SubSeq(generated_date, 1, 10)

\* order of Array.prototype.sort() on date strings: by code unit
CharRank(c) == IF IsDigit(c) THEN 1 + DigitValue(c) ELSE 0

RECURSIVE StrLess(_, _)
StrLess(a, b) ==
    IF Len(b) = 0 THEN FALSE
    ELSE IF Len(a) = 0 THEN TRUE
    ELSE IF CharRank(a[1]) # CharRank(b[1]) THEN CharRank(a[1]) < CharRank(b[1])
    ELSE StrLess(Tail(a), Tail(b))

RECURSIVE sortStrings(_)
\* Array.from(set).sort()
sortStrings(S) ==
    IF S = {} THEN <<>>
    ELSE LET least == CHOOSE x \in S : \A y \in S \ {x} : StrLess(x, y)
         IN  <<least>> \o sortStrings(S \ {least})

Range(s) == {s[i] : i \in 1..Len(s)}

\* ------------------------------------------------------------------------
\* Sample data
\* ------------------------------------------------------------------------

\* the user the requests are made for; user 2 owns rows of the initial state
Users == {1}

\* server time zones, as hours east of UTC
TimezoneOffsets == {0, 5}

\* dates the log writes are made for
LogDates == {<<"2", "0", "2", "4", "-", "0", "1", "-", "1", "5">>}

\* the date field of the body of POST /api/insights/generate; the empty
\* string stands for a missing date as well
RequestDates == {<<>>, <<"0", "1", "-", "0", "1", "-", "2", "0", "2", "4">>, <<"2", "0", "2", "4", "-", "1", "3", "-", "4", "5">>, <<"2", "0", "2", "4", "-", "0", "1", "-", "1", "5">>}

\* the days parameter of GET /api/insights/history; empty when absent
DaysParams == {<<>>, <<"1">>}

TextPair == <<"S", "l", "e", "e", "p", " ", "P", "a", "t", "t", "e", "r", "n", ":", " ", "Y", "o", "u", "r", " ", "m", "o", "o", "d", " ", "w", "a", "s", " ", "l", "o", "w", " ", "(", "2", "/", "5", ")", " ", "f", "o", "r", " ", "3", " ", "d", "a", "y", "s", ".", " ", "T", "r", "y", ":", " ", "1", ")", " ", "X", ",", " ", "2", ")", " ", "Y", ",", " ", "3", ")", " ", "Z", ".">>

TextEscape == <<"N", "o", " ", "a", "c", "t", "i", "o", "n", "a", "b", "l", "e", " ", "h", "e", "a", "l", "t", "h", " ", "i", "n", "s", "i", "g", "h", "t", " ", "c", "o", "u", "l", "d", " ", "b", "e", " ", "g", "e", "n", "e", "r", "a", "t", "e", "d", " ", "f", "o", "r", " ", "t", "h", "i", "s", " ", "d", "a", "y", ".">>

CompletionTexts == {TextPair, TextEscape}

\* what the completion service can answer: fetch rejects, the body is not
\* JSON, the JSON has no choices[0].message.content, or it has a text
CompletionOutcomes ==
    {[kind |-> k, text |-> <<>>] : k \in {"network_error", "not_json", "no_choices"}}
        \cup {[kind |-> "text", text |-> t] : t \in CompletionTexts}

\* ------------------------------------------------------------------------
\* State
\* ------------------------------------------------------------------------

VARIABLES
    tz,               \* the server's time zone offset, hours east of UTC
    health_insights,  \* table health_insights, rows in insertion order
    daily_logs,       \* table daily_logs
    lifestyle_logs,   \* table lifestyle_logs
    calls,            \* the requests: one record per request slot
    logWrites,        \* number of log writes so far
    faults,           \* number of queries that failed so far
    argument,         \* the text a function is applied to on its own
    applied,          \* the function that was applied to it, or "none"
    returned,         \* what the function returned
    posts,            \* the POST /api/logs requests, one record per slot
    symptoms,         \* table symptoms, committed rows in insertion order
    medication_logs,  \* table medication_logs, committed rows
    nextId,           \* AUTO_INCREMENT counter of daily_logs
    page              \* the Health Insights page: its React state and where fetchData is

\* the variables of the functions applied on their own
textVars == <<argument, applied, returned>>

\* the variables of POST /api/logs followed statement by statement
logVars == <<posts, symptoms, medication_logs, nextId>>

vars == <<tz, health_insights, daily_logs, lifestyle_logs, calls, logWrites, faults,
          textVars, logVars, page>>

Procs == 1..MaxCalls

\* a POST /api/logs request that has not been made
IdlePost ==
    [pc |-> "idle", userId |-> 0, date |-> <<>>, body |-> Null,
     existingLogs |-> <<>>, logId |-> 0, locked |-> FALSE, updates |-> FALSE,
     overlapped |-> FALSE,
     symptomValues |-> <<>>, medicationValues |-> <<>>,
     status |-> 0, after |-> Null]

\* HealthInsights.tsx lines 59-65: the state of the page when it mounts;
\* pc is the await fetchData is at, latestLogTime, generateResponse and
\* historyResponse are the answers it got, fetches counts its calls
IdlePage ==
    [pc |-> "idle", isLoading |-> TRUE, isRefreshing |-> FALSE, error |-> Null,
     insights |-> <<>>, lastInsightTime |-> 0, latestLogTime |-> 0,
     generateResponse |-> Null, historyResponse |-> Null, fetches |-> 0]

\* no POST /api/logs request is followed
NoPosts ==
    /\ posts = [p \in Procs |-> IdlePost]
    /\ symptoms = <<>>
    /\ medication_logs = <<>>
    /\ nextId = 1

\* What one run of the pipeline (one generate request, or one date of a
\* history request) has done so far.
EmptyRun ==
    [date        |-> <<>>,
     stored      |-> 0,       \* rows for (user, date) in the table when the run began
     checked     |-> FALSE,   \* the existence SELECT returned
     found       |-> FALSE,   \* the SELECT returned a row
     windowStart |-> <<>>,
     windowEmpty |-> "unknown",
     ai          |-> "none",  \* kind of the completion outcome
     aiAnalysis  |-> <<>>,
     reads       |-> 0,       \* SELECTs on health_insights
     logReads    |-> 0,       \* SELECTs on daily_logs and lifestyle_logs
     writes      |-> 0,       \* INSERTs into health_insights
     completions |-> 0,       \* requests to the completion service
     storeError  |-> FALSE,   \* a query of this run failed
     thrown      |-> "",
     outcome     |-> "pending",
     record      |-> Null]

IdleCall ==
    [route |-> "none", pc |-> "idle", userId |-> 0, date |-> <<>>,
     existing |-> Null, windowStartStr |-> <<>>,
     dailyLogs |-> <<>>, lifestyleLogs |-> <<>>, pending |-> Null,
     days |-> 0, dailyLogDates |-> {}, dates |-> <<>>, i |-> 0, results |-> <<>>,
     status |-> 0, message |-> "", body |-> Null,
     run |-> EmptyRun, runs |-> <<>>]

\* rows of another user: an insight generated on 2024-01-15 and a daily log
\* inside the window of that date
OtherUsersInsight ==
    [user_id |-> 2,
     title |-> <<"H", "y", "d", "r", "a", "t", "i", "o", "n", " ", "I", "m", "p", "a", "c", "t">>,
     content |-> <<"I", "n", "c", "r", "e", "a", "s", "i", "n", "g", " ", "y", "o", "u", "r", " ", "w", "a", "t", "e", "r", " ", "i", "n", "t", "a", "k", "e", " ", "h", "a", "s", " ", "c", "o", "r", "r", "e", "l", "a", "t", "e", "d", " ", "w", "i", "t", "h", " ", "l", "e", "s", "s", " ", "f", "a", "t", "i", "g", "u", "e", ".">>,
     category |-> "Hydration",
     generated_date |-> <<"2", "0", "2", "4", "-", "0", "1", "-", "1", "5", " ", "1", "0", ":", "3", "0", ":", "0", "0">>]

OtherUsersLog == [user_id |-> 2, date |-> <<"2", "0", "2", "4", "-", "0", "1", "-", "1", "2">>]

Init ==
    /\ tz \in TimezoneOffsets
    /\ health_insights = <<OtherUsersInsight>>
    /\ daily_logs \in {<<OtherUsersLog>>,
                       <<OtherUsersLog, [user_id |-> 1, date |-> <<"2", "0", "2", "4", "-", "0", "1", "-", "0", "8">>]>>}
    /\ lifestyle_logs = <<>>
    /\ calls = [p \in Procs |-> IdleCall]
    /\ logWrites = 0
    /\ faults = 0
    /\ argument = <<>> /\ applied = "none" /\ returned = Null
    /\ NoPosts
    /\ page = IdlePage

InFlight == {p \in Procs : calls[p].pc \notin {"idle", "done"}}

\* request slots are used in order
NextSlot(p) ==
    /\ calls[p].pc = "idle"
    /\ \A q \in Procs : q < p => calls[q].pc # "idle"

\* ------------------------------------------------------------------------
\* Queries
\* ------------------------------------------------------------------------

\* the query of line 1328 without its user_id condition
existingInsightsOfAnyUser(userId, date) ==
    {i \in 1..Len(health_insights) : DATE(health_insights[i].generated_date) = date}

\* SELECT * FROM health_insights WHERE user_id = ? AND DATE(generated_date) = ?
existingInsights(userId, date) ==
    {i \in 1..Len(health_insights) :
        /\ health_insights[i].user_id = userId
        /\ DATE(health_insights[i].generated_date) = date}

\* the record of a run that begins now
NewRun(userId, date) ==
    [EmptyRun EXCEPT !.date = date,
                     !.stored = Cardinality(existingInsights(userId, date))]

\* table rows WHERE user_id = ? AND date BETWEEN ? AND ? ORDER BY date ASC;
\* the rows of one date keep their insertion order
RECURSIVE orderByDate(_)
orderByDate(rows) ==
    IF rows = <<>> THEN <<>>
    ELSE LET first == MinOf({i \in 1..Len(rows) :
                          \A j \in 1..Len(rows) : ~StrLess(rows[j].date, rows[i].date)})
         IN  <<rows[first]>>
               \o orderByDate(SubSeq(rows, 1, first - 1) \o SubSeq(rows, first + 1, Len(rows)))

InWindow(row, userId, windowStartStr, windowEndStr) ==
    /\ row.user_id = userId
    /\ ~StrLess(row.date, windowStartStr)
    /\ ~StrLess(windowEndStr, row.date)

logsInWindow(table, userId, windowStartStr, windowEndStr) ==
    LET hit(row) == InWindow(row, userId, windowStartStr, windowEndStr)
    IN  orderByDate(SelectSeq(table, hit))

\* an INSERT under a unique key on (user_id, day of generated_date), which
\* the table of the migration does not have
insertInsightUnique(table, row) ==
    IF \E i \in 1..Len(table) :
          /\ table[i].user_id = row.user_id
          /\ DATE(table[i].generated_date) = DATE(row.generated_date)
    THEN table
    ELSE Append(table, row)

\* an INSERT that replaces the stored row of the same user and day
insertInsightReplacing(table, row) ==
    IF \E i \in 1..Len(table) :
          /\ table[i].user_id = row.user_id
          /\ DATE(table[i].generated_date) = DATE(row.generated_date)
    THEN [i \in 1..Len(table) |->
            IF /\ table[i].user_id = row.user_id
               /\ DATE(table[i].generated_date) = DATE(row.generated_date)
            THEN row ELSE table[i]]
    ELSE Append(table, row)

\* an INSERT that is acknowledged and stores nothing
insertInsightNowhere(table, row) == table

\* INSERT INTO health_insights (...) VALUES (...)
insertInsight(table, row) == Append(table, row)

\* ------------------------------------------------------------------------
\* The records the pipeline builds
\* ------------------------------------------------------------------------

noDataInsight(userId, date) ==
    [user_id |-> userId,
     title |-> <<"N", "o", " ", "H", "e", "a", "l", "t", "h", " ", "D", "a", "t", "a">>,
     content |-> <<"N", "o", " ", "h", "e", "a", "l", "t", "h", " ", "o", "r", " ", "l", "i", "f", "e", "s", "t", "y", "l", "e", " ", "d", "a", "t", "a", " ", "w", "a", "s", " ", "l", "o", "g", "g", "e", "d", " ", "f", "o", "r", " ", "t", "h", "i", "s", " ", "d", "a", "y", ".">>,
     category |-> "General",
     generated_date |-> midnight(date)]

\* the fallback record with the name of the failure as its category
noActionableAsCategory(userId, date) ==
    [user_id |-> userId,
     title |-> <<"N", "o", " ", "A", "c", "t", "i", "o", "n", "a", "b", "l", "e", " ", "I", "n", "s", "i", "g", "h", "t">>,
     content |-> <<"N", "o", " ", "a", "c", "t", "i", "o", "n", "a", "b", "l", "e", " ", "h", "e", "a", "l", "t", "h", " ", "i", "n", "s", "i", "g", "h", "t", " ", "c", "o", "u", "l", "d", " ", "b", "e", " ", "g", "e", "n", "e", "r", "a", "t", "e", "d", " ", "f", "o", "r", " ", "t", "h", "i", "s", " ", "d", "a", "y", ".">>,
     category |-> "No Actionable Insight",
     generated_date |-> midnight(date)]

noActionable(userId, date) ==
    [user_id |-> userId,
     title |-> <<"N", "o", " ", "A", "c", "t", "i", "o", "n", "a", "b", "l", "e", " ", "I", "n", "s", "i", "g", "h", "t">>,
     content |-> <<"N", "o", " ", "a", "c", "t", "i", "o", "n", "a", "b", "l", "e", " ", "h", "e", "a", "l", "t", "h", " ", "i", "n", "s", "i", "g", "h", "t", " ", "c", "o", "u", "l", "d", " ", "b", "e", " ", "g", "e", "n", "e", "r", "a", "t", "e", "d", " ", "f", "o", "r", " ", "t", "h", "i", "s", " ", "d", "a", "y", ".">>,
     category |-> "General",
     generated_date |-> midnight(date)]

\* groqResult.choices?.[0]?.message?.content?.trim() || ''
completionText(outcome) ==
    IF outcome.kind = "text" THEN trim(outcome.text) ELSE <<>>

\* lines 1659-1674 and 1517-1533: the extracted pair, or Null, and the
\* category of a completion text
analyse(aiAnalysis) ==
    LET actionable == extractActionableInsight(aiAnalysis)
    IN  [actionable |-> actionable,
         category   |-> IF actionable = Null THEN "General"
                        ELSE determineCategory(actionable.title \o <<":", " ">>
                                                   \o actionable.content)]

\* analyse, computed once for every text the completion service can answer
Analysed == [t \in {completionText(o) : o \in CompletionOutcomes} |-> analyse(t)]

\* lines 1659-1681 (generate) and 1517-1540 (history): the record to insert
\* for the extracted pair and category of a completion text
insightOf(userId, date, analysed) ==
    IF analysed.actionable = Null
    THEN noActionable(userId, date)
    ELSE [user_id |-> userId,
          title |-> analysed.actionable.title,
          content |-> analysed.actionable.content,
          category |-> analysed.category,
          generated_date |-> midnight(date)]

\* a pipeline that stores the completion text when no pair was extracted
insightForAnyText(userId, date, aiAnalysis) ==
    [user_id |-> userId,
     title |-> IF Analysed[aiAnalysis].actionable = Null
               THEN <<"H", "e", "a", "l", "t", "h", " ", "I", "n", "s", "i", "g", "h", "t">> ELSE Analysed[aiAnalysis].actionable.title,
     content |-> IF Analysed[aiAnalysis].actionable = Null
                 THEN aiAnalysis ELSE Analysed[aiAnalysis].actionable.content,
     category |-> Analysed[aiAnalysis].category,
     generated_date |-> midnight(date)]

\* the record to insert for a completion text
insightFor(userId, date, aiAnalysis) == insightOf(userId, date, Analysed[aiAnalysis])

\* ------------------------------------------------------------------------
\* POST /api/insights/generate
\* ------------------------------------------------------------------------

\* a pool.query call rejects
QueryFails ==
    /\ faults < MaxFaults
    /\ faults' = faults + 1

\* the run of a call ends: it is appended to the call's finished runs
EndRun(c, outcome, thrown, record) ==
    LET r == [c.run EXCEPT !.outcome = outcome, !.thrown = thrown, !.record = record,
                           !.storeError = (thrown = "query failed")]
    IN  [c EXCEPT !.run = r, !.runs = Append(@, r),
                  !.existing = Null, !.pending = Null, !.windowStartStr = <<>>,
                  !.dailyLogs = <<>>, !.lifestyleLogs = <<>>]

\* res.json(record)
generateRespond(c, record) ==
    [EndRun(c, "returned", "", record) EXCEPT
        !.pc = "done", !.status = 200, !.body = record]

\* the catch of lines 1687-1690
generateCatch(c, thrown) ==
    [EndRun(c, "failed", thrown, Null) EXCEPT
        !.pc = "done", !.status = 500,
        !.message = "Server error while generating insight"]

\* the request arrives at a route whose getExistingInsight does not test the
\* format of the date
GenerateStartUnvalidated(p, userId, date, limit) ==
    /\ NextSlot(p)
    /\ Cardinality(InFlight) < limit
    /\ LET c == [IdleCall EXCEPT !.route = "generate", !.userId = userId,
                                 !.date = date, !.run = NewRun(userId, date)]
       IN  calls' = [calls EXCEPT ![p] =
             IF Len(date) = 0
             THEN [EndRun(c, "rejected", "", Null) EXCEPT
                      !.pc = "done", !.status = 400, !.message = "Date is required"]
             ELSE [c EXCEPT !.pc = "check"]]
    /\ UNCHANGED <<textVars, logVars, tz, page, health_insights, daily_logs, lifestyle_logs, logWrites, faults>>

\* lines 1561-1567: the request arrives; a missing date is rejected, a date
\* that getExistingInsight refuses throws before any query
GenerateStart(p, userId, date, limit) ==
    /\ NextSlot(p)
    /\ Cardinality(InFlight) < limit
    /\ LET c == [IdleCall EXCEPT !.route = "generate", !.userId = userId,
                                 !.date = date, !.run = NewRun(userId, date)]
       IN  calls' = [calls EXCEPT ![p] =
             IF Len(date) = 0
             THEN [EndRun(c, "rejected", "", Null) EXCEPT
                      !.pc = "done", !.status = 400, !.message = "Date is required"]
             ELSE IF ~DateFormatOK(date)
             THEN generateCatch(c, "Date must be in YYYY-MM-DD format")
             ELSE [c EXCEPT !.pc = "check"]]
    /\ UNCHANGED <<textVars, logVars, tz, page, health_insights, daily_logs, lifestyle_logs, logWrites, faults>>

\* the SELECT of getExistingInsight returns at a route that generates
\* whether or not a row exists
GenerateCheckRegenerates(p) ==
    LET c    == [calls[p] EXCEPT !.run.reads = @ + 1]
        hits == existingInsights(c.userId, c.date)
        seen == [c EXCEPT !.run.checked = TRUE, !.run.found = (hits # {})]
    IN  /\ c.route = "generate" /\ c.pc = "check"
        /\ \/ /\ QueryFails
              /\ calls' = [calls EXCEPT ![p] = generateCatch(c, "query failed")]
           \/ /\ calls' = [calls EXCEPT ![p] =
                    IF ~IsCalendarDate(c.date)
                    THEN generateCatch(seen, "Invalid time value")
                    ELSE [seen EXCEPT
                            !.pc = "daily",
                            !.windowStartStr = generateWindowStart(c.date, tz),
                            !.run.windowStart = generateWindowStart(c.date, tz)]]
              /\ UNCHANGED faults
        /\ UNCHANGED <<textVars, logVars, tz, page, health_insights, daily_logs, lifestyle_logs, logWrites>>

\* lines 1567-1575: the SELECT of getExistingInsight returns; an existing row
\* is the response, otherwise the window start is computed
GenerateCheck(p) ==
    LET c    == [calls[p] EXCEPT !.run.reads = @ + 1]
        hits == existingInsights(c.userId, c.date)
        seen == [c EXCEPT !.run.checked = TRUE, !.run.found = (hits # {})]
    IN  /\ c.route = "generate" /\ c.pc = "check"
        /\ \/ /\ QueryFails
              /\ calls' = [calls EXCEPT ![p] = generateCatch(c, "query failed")]
           \/ /\ hits # {}
              /\ \E i \in hits :
                    calls' = [calls EXCEPT ![p] =
                        generateRespond([seen EXCEPT !.existing = health_insights[i]],
                                        health_insights[i])]
              /\ UNCHANGED faults
           \/ /\ hits = {}
              /\ calls' = [calls EXCEPT ![p] =
                    IF ~IsCalendarDate(c.date)
                    THEN generateCatch(seen, "Invalid time value")
                    ELSE [seen EXCEPT
                            !.pc = "daily",
                            !.windowStartStr = generateWindowStart(c.date, tz),
                            !.run.windowStart = generateWindowStart(c.date, tz)]]
              /\ UNCHANGED faults
        /\ UNCHANGED <<textVars, logVars, tz, page, health_insights, daily_logs, lifestyle_logs, logWrites>>

\* lines 1577-1580: the daily_logs query returns
GenerateDaily(p) ==
    LET c == [calls[p] EXCEPT !.run.logReads = @ + 1]
    IN  /\ c.route = "generate" /\ c.pc = "daily"
        /\ \/ /\ QueryFails
              /\ calls' = [calls EXCEPT ![p] = generateCatch(c, "query failed")]
           \/ /\ calls' = [calls EXCEPT ![p] =
                    [c EXCEPT !.pc = "lifestyle",
                              !.dailyLogs = logsInWindow(daily_logs, c.userId,
                                                         c.windowStartStr, c.date)]]
              /\ UNCHANGED faults
        /\ UNCHANGED <<textVars, logVars, tz, page, health_insights, daily_logs, lifestyle_logs, logWrites>>

\* lines 1589-1596 and 1449-1456: with no logs at all the record to insert
\* is the no-data record, otherwise the completion service is asked
afterWindow(c, rows) ==
    IF Len(c.dailyLogs) = 0 /\ Len(rows) = 0
    THEN [c EXCEPT !.pc = "insert", !.lifestyleLogs = rows,
                   !.run.windowEmpty = "yes",
                   !.pending = noDataInsight(c.userId, c.date)]
    ELSE [c EXCEPT !.pc = "fetch", !.lifestyleLogs = rows,
                   !.run.windowEmpty = "no"]

\* lines 1582-1596: the lifestyle_logs query returns
GenerateLifestyle(p) ==
    LET c    == [calls[p] EXCEPT !.run.logReads = @ + 1]
        rows == logsInWindow(lifestyle_logs, c.userId, c.windowStartStr, c.date)
    IN  /\ c.route = "generate" /\ c.pc = "lifestyle"
        /\ \/ /\ QueryFails
              /\ calls' = [calls EXCEPT ![p] = generateCatch(c, "query failed")]
           \/ /\ calls' = [calls EXCEPT ![p] = afterWindow(c, rows)]
              /\ UNCHANGED faults
        /\ UNCHANGED <<textVars, logVars, tz, page, health_insights, daily_logs, lifestyle_logs, logWrites>>

\* lines 1655-1681 and 1514-1540: the answer of the completion service is
\* read and the record to insert is built
afterCompletion(c, o) ==
    [c EXCEPT !.pc = "insert",
              !.run.ai = o.kind,
              !.run.aiAnalysis = completionText(o),
              !.pending = insightFor(c.userId, c.date, completionText(o))]

\* lines 1606-1681: the completion request is made and answered; a rejected
\* fetch or a body that is not JSON throws
GenerateFetch(p) ==
    LET c == [calls[p] EXCEPT !.run.completions = @ + 1]
    IN  /\ c.route = "generate" /\ c.pc = "fetch"
        /\ \E o \in CompletionOutcomes :
              calls' = [calls EXCEPT ![p] =
                  IF o.kind = "network_error"
                  THEN generateCatch([c EXCEPT !.run.ai = o.kind], "fetch failed")
                  ELSE IF o.kind = "not_json"
                  THEN generateCatch([c EXCEPT !.run.ai = o.kind], "Unexpected token")
                  ELSE afterCompletion(c, o)]
        /\ UNCHANGED <<textVars, logVars, tz, page, health_insights, daily_logs, lifestyle_logs, logWrites, faults>>

\* lines 1597-1601, 1668-1672, 1682-1686: the INSERT returns and the inserted
\* record is the response
GenerateInsert(p) ==
    LET c == calls[p]
    IN  /\ c.route = "generate" /\ c.pc = "insert"
        /\ \/ /\ QueryFails
              /\ calls' = [calls EXCEPT ![p] = generateCatch(c, "query failed")]
              /\ UNCHANGED health_insights
           \/ /\ health_insights' = insertInsight(health_insights, c.pending)
              /\ calls' = [calls EXCEPT ![p] =
                    generateRespond([c EXCEPT !.run.writes = @ + 1], c.pending)]
              /\ UNCHANGED faults
        /\ UNCHANGED <<textVars, logVars, tz, page, daily_logs, lifestyle_logs, logWrites>>

\* ------------------------------------------------------------------------
\* GET /api/insights/history
\* ------------------------------------------------------------------------

\* parseInt(req.query.days) || 7, for a parameter without leading blanks
daysParam(q) ==
    LET neg    == Len(q) > 0 /\ q[1] = "-"
        from   == IF Len(q) > 0 /\ q[1] \in {"-", "+"} THEN 2 ELSE 1
        to     == skipDigits(q, from) - 1
        digits == SubSeq(q, from, to)
        RECURSIVE value(_)
        value(s) == IF s = <<>> THEN 0
                    ELSE 10 * value(SubSeq(s, 1, Len(s) - 1)) + DigitValue(s[Len(s)])
    IN  IF to < from \/ value(digits) = 0 THEN DefaultDays
        ELSE IF neg THEN 0 - value(digits) ELSE value(digits)

\* the leading entries instead of the trailing ones: arr.slice(0, -start)
sliceLeading(arr, start) ==
    SubSeq(arr, 1, IF 0 - start < Len(arr) THEN 0 - start ELSE Len(arr))

\* arr.slice(start)
sliceFrom(arr, start) ==
    LET from == IF start < 0
                THEN (IF Len(arr) + start < 0 THEN 0 ELSE Len(arr) + start)
                ELSE (IF start > Len(arr) THEN Len(arr) ELSE start)
    IN  SubSeq(arr, from + 1, Len(arr))

\* the earliest date added to the slice instead of the latest
historyDatesWithEarliest(allDates, days) ==
    sortStrings(Range(sliceFrom(allDates, 0 - days)) \cup {allDates[1]})

\* lines 1412-1417: the dates the loop processes
historyDates(allDates, days) ==
    LET dates      == sliceFrom(allDates, 0 - days)
        latestDate == allDates[Len(allDates)]
        pushed     == IF latestDate \in Range(dates) THEN dates
                      ELSE Append(dates, latestDate)
    IN  sortStrings(Range(pushed))

\* toYMD of line 1345, for the strings a DATE column yields
toYMD(d) == slice(d, 10)

\* res.json(results)
historyRespond(c) ==
    [c EXCEPT !.pc = "done", !.status = 200, !.i = 0, !.date = <<>>]

\* the loop goes on to the next date, or the results are the response
nextDate(c) ==
    IF c.i < Len(c.dates)
    THEN [c EXCEPT !.pc = "check", !.i = @ + 1, !.date = c.dates[c.i + 1],
                   !.run = NewRun(c.userId, c.dates[c.i + 1])]
    ELSE historyRespond(c)

\* results.push(record); continue
historyPush(c, record) ==
    nextDate([EndRun(c, "returned", "", record) EXCEPT !.results = Append(@, record)])

\* a loop without the catch of lines 1546-1549: the error of a date reaches
\* the catch of the route, which answers 500
historyCatchOuter(c, thrown) ==
    [EndRun(c, "failed", thrown, Null) EXCEPT
        !.pc = "done", !.status = 500, !.i = 0, !.date = <<>>,
        !.message = "Server error while fetching insights history"]

\* the catch of lines 1546-1549: the date is skipped
historyCatch(c, thrown) == nextDate(EndRun(c, "failed", thrown, Null))

\* lines 1405-1407: the request arrives
HistoryStart(p, userId, q, limit) ==
    /\ NextSlot(p)
    /\ Cardinality(InFlight) < limit
    /\ calls' = [calls EXCEPT ![p] =
          [IdleCall EXCEPT !.route = "history", !.userId = userId,
                           !.days = daysParam(q), !.pc = "dailyDates"]]
    /\ UNCHANGED <<textVars, logVars, tz, page, health_insights, daily_logs, lifestyle_logs, logWrites, faults>>

\* lines 1336-1339: the first query of getAllLogDates returns; when it fails
\* getAllLogDates returns no dates and the response is empty
HistoryDailyDates(p) ==
    LET c == calls[p]
    IN  /\ c.route = "history" /\ c.pc = "dailyDates"
        /\ \/ /\ QueryFails
              /\ calls' = [calls EXCEPT ![p] = historyRespond(c)]
           \/ /\ calls' = [calls EXCEPT ![p] =
                    [c EXCEPT !.pc = "lifestyleDates",
                              !.dailyLogDates =
                                  {toYMD(daily_logs[i].date) :
                                      i \in {j \in 1..Len(daily_logs) :
                                                daily_logs[j].user_id = c.userId}}]]
              /\ UNCHANGED faults
        /\ UNCHANGED <<textVars, logVars, tz, page, health_insights, daily_logs, lifestyle_logs, logWrites>>

\* lines 1340-1418: the second query returns and the dates are chosen
HistoryLifestyleDates(p) ==
    LET c        == calls[p]
        allDates == sortStrings(c.dailyLogDates \cup
                       {toYMD(lifestyle_logs[i].date) :
                           i \in {j \in 1..Len(lifestyle_logs) :
                                     lifestyle_logs[j].user_id = c.userId}})
        dates    == historyDates(allDates, c.days)
    IN  /\ c.route = "history" /\ c.pc = "lifestyleDates"
        /\ \/ /\ QueryFails
              /\ calls' = [calls EXCEPT ![p] =
                    historyRespond([c EXCEPT !.dailyLogDates = {}])]
           \/ /\ calls' = [calls EXCEPT ![p] =
                    IF Len(allDates) = 0
                    THEN historyRespond([c EXCEPT !.dailyLogDates = {}])
                    ELSE [c EXCEPT !.pc = "check", !.dailyLogDates = {},
                                   !.dates = dates, !.i = 1, !.date = dates[1],
                                   !.run = NewRun(c.userId, dates[1])]]
              /\ UNCHANGED faults
        /\ UNCHANGED <<textVars, logVars, tz, page, health_insights, daily_logs, lifestyle_logs, logWrites>>

\* a history loop that generates again for a date that has a record
HistoryCheckRefreshes(p) ==
    LET c    == [calls[p] EXCEPT !.run.reads = @ + 1]
        hits == existingInsights(c.userId, c.date)
        seen == [c EXCEPT !.run.checked = TRUE, !.run.found = (hits # {})]
    IN  /\ c.route = "history" /\ c.pc = "check"
        /\ \/ /\ ~DateFormatOK(c.date)
              /\ calls' = [calls EXCEPT ![p] =
                    historyCatch(calls[p], "Date must be in YYYY-MM-DD format")]
              /\ UNCHANGED faults
           \/ /\ DateFormatOK(c.date)
              /\ QueryFails
              /\ calls' = [calls EXCEPT ![p] = historyCatch(c, "query failed")]
           \/ /\ DateFormatOK(c.date)
              /\ calls' = [calls EXCEPT ![p] =
                    [seen EXCEPT
                        !.pc = "daily",
                        !.windowStartStr = historyWindowStart(c.date, tz),
                        !.run.windowStart = historyWindowStart(c.date, tz)]]
              /\ UNCHANGED faults
        /\ UNCHANGED <<textVars, logVars, tz, page, health_insights, daily_logs, lifestyle_logs, logWrites>>

\* lines 1424-1437: getExistingInsight for the date of the loop
HistoryCheck(p) ==
    LET c    == [calls[p] EXCEPT !.run.reads = @ + 1]
        hits == existingInsights(c.userId, c.date)
        seen == [c EXCEPT !.run.checked = TRUE, !.run.found = (hits # {})]
    IN  /\ c.route = "history" /\ c.pc = "check"
        /\ \/ /\ ~DateFormatOK(c.date)
              /\ calls' = [calls EXCEPT ![p] =
                    historyCatch(calls[p], "Date must be in YYYY-MM-DD format")]
              /\ UNCHANGED faults
           \/ /\ DateFormatOK(c.date)
              /\ QueryFails
              /\ calls' = [calls EXCEPT ![p] = historyCatch(c, "query failed")]
           \/ /\ DateFormatOK(c.date)
              /\ hits # {}
              /\ \E i \in hits :
                    calls' = [calls EXCEPT ![p] = historyPush(seen, health_insights[i])]
              /\ UNCHANGED faults
           \/ /\ DateFormatOK(c.date)
              /\ hits = {}
              /\ calls' = [calls EXCEPT ![p] =
                    [seen EXCEPT
                        !.pc = "daily",
                        !.windowStartStr = historyWindowStart(c.date, tz),
                        !.run.windowStart = historyWindowStart(c.date, tz)]]
              /\ UNCHANGED faults
        /\ UNCHANGED <<textVars, logVars, tz, page, health_insights, daily_logs, lifestyle_logs, logWrites>>

\* lines 1439-1442: the daily_logs query returns
HistoryDaily(p) ==
    LET c == [calls[p] EXCEPT !.run.logReads = @ + 1]
    IN  /\ c.route = "history" /\ c.pc = "daily"
        /\ \/ /\ QueryFails
              /\ calls' = [calls EXCEPT ![p] = historyCatch(c, "query failed")]
           \/ /\ calls' = [calls EXCEPT ![p] =
                    [c EXCEPT !.pc = "lifestyle",
                              !.dailyLogs = logsInWindow(daily_logs, c.userId,
                                                         c.windowStartStr, c.date)]]
              /\ UNCHANGED faults
        /\ UNCHANGED <<textVars, logVars, tz, page, health_insights, daily_logs, lifestyle_logs, logWrites>>

\* lines 1444-1456: the lifestyle_logs query returns
HistoryLifestyle(p) ==
    LET c    == [calls[p] EXCEPT !.run.logReads = @ + 1]
        rows == logsInWindow(lifestyle_logs, c.userId, c.windowStartStr, c.date)
    IN  /\ c.route = "history" /\ c.pc = "lifestyle"
        /\ \/ /\ QueryFails
              /\ calls' = [calls EXCEPT ![p] = historyCatch(c, "query failed")]
           \/ /\ calls' = [calls EXCEPT ![p] = afterWindow(c, rows)]
              /\ UNCHANGED faults
        /\ UNCHANGED <<textVars, logVars, tz, page, health_insights, daily_logs, lifestyle_logs, logWrites>>

\* lines 1465-1540: the completion request is made and answered
HistoryFetch(p) ==
    LET c == [calls[p] EXCEPT !.run.completions = @ + 1]
    IN  /\ c.route = "history" /\ c.pc = "fetch"
        /\ \E o \in CompletionOutcomes :
              calls' = [calls EXCEPT ![p] =
                  IF o.kind = "network_error"
                  THEN historyCatch([c EXCEPT !.run.ai = o.kind], "fetch failed")
                  ELSE IF o.kind = "not_json"
                  THEN historyCatch([c EXCEPT !.run.ai = o.kind], "Unexpected token")
                  ELSE afterCompletion(c, o)]
        /\ UNCHANGED <<textVars, logVars, tz, page, health_insights, daily_logs, lifestyle_logs, logWrites, faults>>

\* lines 1457-1462, 1526-1531, 1541-1545: the INSERT returns and the record
\* is pushed to the results
HistoryInsert(p) ==
    LET c == calls[p]
    IN  /\ c.route = "history" /\ c.pc = "insert"
        /\ \/ /\ QueryFails
              /\ calls' = [calls EXCEPT ![p] = historyCatch(c, "query failed")]
              /\ UNCHANGED health_insights
           \/ /\ health_insights' = insertInsight(health_insights, c.pending)
              /\ calls' = [calls EXCEPT ![p] =
                    historyPush([c EXCEPT !.run.writes = @ + 1], c.pending)]
              /\ UNCHANGED faults
        /\ UNCHANGED <<textVars, logVars, tz, page, daily_logs, lifestyle_logs, logWrites>>

\* ------------------------------------------------------------------------
\* POST /api/logs and POST /api/lifestyle
\* ------------------------------------------------------------------------

\* lines 665-744: one row per (user_id, date); an existing row is updated
PostLog(userId, date) ==
    /\ logWrites < MaxLogWrites
    /\ DateFormatOK(date)
    /\ logWrites' = logWrites + 1
    /\ daily_logs' =
          IF \E i \in 1..Len(daily_logs) :
                daily_logs[i].user_id = userId /\ daily_logs[i].date = date
          THEN daily_logs
          ELSE Append(daily_logs, [user_id |-> userId, date |-> date])
    /\ UNCHANGED <<textVars, logVars, tz, page, health_insights, lifestyle_logs, calls, faults>>

\* lines 850-883: every call inserts a row
PostLifestyle(userId, date) ==
    /\ logWrites < MaxLogWrites
    /\ logWrites' = logWrites + 1
    /\ lifestyle_logs' = Append(lifestyle_logs, [user_id |-> userId, date |-> date])
    /\ UNCHANGED <<textVars, logVars, tz, page, health_insights, daily_logs, calls, faults>>

\* ------------------------------------------------------------------------
\* GET /api/insights and GET /api/insights/latest
\* ------------------------------------------------------------------------

\* the UTC date of new Date() while the requests are served
Today == <<"2", "0", "2", "4", "-", "0", "1", "-", "1", "5">>

RECURSIVE skipSpaces(_, _)
\* index after the longest run of \s of s that starts at i
skipSpaces(s, i) ==
    IF i <= Len(s) /\ IsSpace(s[i]) THEN skipSpaces(s, i + 1) ELSE i

\* content.match(/\d+%|\d+\s*points?/)
matchesPercentOrPoints(s) ==
    \E i \in 1..Len(s) :
        /\ IsDigit(s[i])
        /\ LET e == skipDigits(s, i)
           IN  \/ (e <= Len(s) /\ s[e] = "%")
               \/ startsAt(s, skipSpaces(s, e), <<"p", "o", "i", "n", "t">>)

\* lines 1107-1124: the insight of one line of the completion, or Null
legacyInsight(insight) ==
    LET title   == split(insight, ":")[1]
        content == IF Len(title) = Len(insight) THEN <<>>
                   ELSE trim(SubSeq(insight, Len(title) + 2, Len(insight)))
    IN  IF Len(title) = 0 \/ Len(content) = 0 THEN Null
        ELSE IF /\ includes(toLowerCase(title), <<"m", "o", "o", "d">>)
                /\ includes(toLowerCase(content), <<"c", "o", "r", "r", "e", "l", "a", "t", "i", "o", "n">>)
                /\ ~matchesPercentOrPoints(content)
        THEN Null
        ELSE [title    |-> slice(trim(title), TitleMax),
              content  |-> slice(content, ContentMax),
              category |-> determineCategory(insight)]

\* lines 1098-1126: the completion text is parsed; silent when the text is
\* empty or says that the data do not suffice
legacyParse(aiAnalysis) ==
    LET raw      == split(aiAnalysis, "\n")
        nonBlank(line) == Len(trim(line)) > 0
        parsed   == [i \in 1..Len(SelectSeq(raw, nonBlank)) |->
                        legacyInsight(SelectSeq(raw, nonBlank)[i])]
        notNull(x) == x # Null
    IN  [silent   |-> \/ Len(aiAnalysis) = 0
                      \/ includes(toLowerCase(aiAnalysis), <<"n", "o", "t", " ", "e", "n", "o", "u", "g", "h", " ", "d", "a", "t", "a">>)
                      \/ includes(toLowerCase(aiAnalysis), <<"i", "n", "s", "u", "f", "f", "i", "c", "i", "e", "n", "t", " ", "d", "a", "t", "a">>),
         insights |-> SelectSeq(parsed, notNull)]

\* legacyParse, computed once for every text the completion service can answer
LegacyParsed == [t \in {completionText(o) : o \in CompletionOutcomes} |-> legacyParse(t)]

\* the rows to insert for the parsed insights: generated_date is
\* toMySQLDate(new Date())
legacyRows(userId, insights) ==
    [i \in 1..Len(insights) |->
        [user_id |-> userId,
         title |-> insights[i].title,
         content |-> insights[i].content,
         category |-> insights[i].category,
         generated_date |-> Today \o <<" ", "0", "0", ":", "0", "0", ":", "0", "0">>]]

\* SELECT content FROM health_insights WHERE user_id = ? ORDER BY
\* generated_date DESC LIMIT n: the possible results, as sequences of row
\* numbers; rows of equal generated_date come in any order
mostRecentInsights(userId, n) ==
    LET rows == {i \in 1..Len(health_insights) : health_insights[i].user_id = userId}
        k    == IF n < Cardinality(rows) THEN n ELSE Cardinality(rows)
        gd(i) == health_insights[i].generated_date
    IN  {s \in [1..k -> rows] :
            /\ \A a, b \in 1..k : a < b => (s[a] # s[b] /\ ~StrLess(gd(s[a]), gd(s[b])))
            /\ \A r \in rows \ {s[a] : a \in 1..k} :
                  \A a \in 1..k : ~StrLess(gd(s[a]), gd(r))}

\* lines 1138-1140: !existingInsights.every((existing, index) => ...)
insightsChanged(existing, insights) ==
    ~(\A index \in 1..Len(existing) : existing[index] = insights[index].content)

\* res.json(...) of the legacy route
legacyRespond(c, status, message) ==
    [c EXCEPT !.pc = "done", !.status = status, !.message = message]

\* the request arrives
LegacyStart(p, userId, limit) ==
    /\ NextSlot(p)
    /\ Cardinality(InFlight) < limit
    /\ calls' = [calls EXCEPT ![p] =
          [IdleCall EXCEPT !.route = "legacy", !.userId = userId, !.pc = "legacyLogs"]]
    /\ UNCHANGED <<textVars, logVars, tz, page, health_insights, daily_logs, lifestyle_logs, logWrites, faults>>

\* lines 1037-1048: the query of the daily logs returns
LegacyLogs(p) ==
    LET c == calls[p]
    IN  /\ c.route = "legacy" /\ c.pc = "legacyLogs"
        /\ \/ /\ QueryFails
              /\ calls' = [calls EXCEPT ![p] =
                    legacyRespond(c, 500, "Error generating health insights")]
           \/ /\ calls' = [calls EXCEPT ![p] = [c EXCEPT !.pc = "legacyFetch"]]
              /\ UNCHANGED faults
        /\ UNCHANGED <<textVars, logVars, tz, page, health_insights, daily_logs, lifestyle_logs, logWrites>>

\* lines 1065-1130: the completion request is made and answered, and the
\* answer is parsed
LegacyFetch(p) ==
    LET c == [calls[p] EXCEPT !.run.completions = @ + 1]
    IN  /\ c.route = "legacy" /\ c.pc = "legacyFetch"
        /\ \E o \in CompletionOutcomes :
              calls' = [calls EXCEPT ![p] =
                  IF o.kind \in {"network_error", "not_json"}
                  THEN legacyRespond(c, 500, "Error generating health insights")
                  ELSE IF o.kind = "no_choices"
                  THEN legacyRespond(c, 500,
                          "AI service error: Unable to generate insights at this time.")
                  ELSE IF \/ LegacyParsed[completionText(o)].silent
                          \/ Len(LegacyParsed[completionText(o)].insights) = 0
                  THEN legacyRespond(c, 200, "")
                  ELSE [c EXCEPT !.pc = "legacySelect",
                                 !.results = legacyRows(c.userId,
                                                LegacyParsed[completionText(o)].insights)]]
        /\ UNCHANGED <<textVars, logVars, tz, page, health_insights, daily_logs, lifestyle_logs, logWrites, faults>>

\* lines 1133-1142: the stored contents are read and compared
LegacySelect(p) ==
    LET c == [calls[p] EXCEPT !.run.reads = @ + 1]
    IN  /\ c.route = "legacy" /\ c.pc = "legacySelect"
        /\ \/ /\ QueryFails
              /\ calls' = [calls EXCEPT ![p] =
                    legacyRespond([c EXCEPT !.results = <<>>], 500,
                                  "Error generating health insights")]
           \/ /\ \E s \in mostRecentInsights(c.userId, Len(c.results)) :
                    LET existing == [a \in 1..Len(s) |-> health_insights[s[a]].content]
                    IN  calls' = [calls EXCEPT ![p] =
                            IF insightsChanged(existing, c.results)
                            THEN [c EXCEPT !.pc = "legacyInsert", !.i = 1,
                                           !.existing = existing]
                            ELSE legacyRespond([c EXCEPT !.existing = existing], 200, "")]
              /\ UNCHANGED faults
        /\ UNCHANGED <<textVars, logVars, tz, page, health_insights, daily_logs, lifestyle_logs, logWrites>>

\* lines 1144-1152: one INSERT of the loop returns; after the last one the
\* insights are the response
LegacyInsert(p) ==
    LET c == calls[p]
    IN  /\ c.route = "legacy" /\ c.pc = "legacyInsert"
        /\ \/ /\ QueryFails
              /\ calls' = [calls EXCEPT ![p] =
                    legacyRespond([c EXCEPT !.results = <<>>], 500,
                                  "Error generating health insights")]
              /\ UNCHANGED health_insights
           \/ /\ health_insights' = insertInsight(health_insights, c.results[c.i])
              /\ calls' = [calls EXCEPT ![p] =
                    IF c.i < Len(c.results)
                    THEN [c EXCEPT !.i = @ + 1, !.run.writes = @ + 1]
                    ELSE legacyRespond([c EXCEPT !.run.writes = @ + 1], 200, "")]
              /\ UNCHANGED faults
        /\ UNCHANGED <<textVars, logVars, tz, page, daily_logs, lifestyle_logs, logWrites>>

\* lines 1277-1294: GET /api/insights/latest, the most recent insight
\* generated today, or null
LatestInsight(p, userId, limit) ==
    LET c    == [IdleCall EXCEPT !.route = "latest", !.userId = userId,
                                 !.run.reads = 1]
        hits == existingInsights(userId, Today)
        top  == {i \in hits : \A j \in hits :
                    ~StrLess(health_insights[i].generated_date,
                             health_insights[j].generated_date)}
    IN  /\ NextSlot(p)
        /\ Cardinality(InFlight) < limit
        /\ \/ /\ QueryFails
              /\ calls' = [calls EXCEPT ![p] =
                    legacyRespond(c, 500, "Error fetching latest AI insight")]
           \/ /\ hits = {}
              /\ calls' = [calls EXCEPT ![p] = legacyRespond(c, 200, "")]
              /\ UNCHANGED faults
           \/ /\ \E i \in top :
                    calls' = [calls EXCEPT ![p] =
                        [legacyRespond(c, 200, "") EXCEPT !.body = health_insights[i],
                                                         !.existing = health_insights[i]]]
              /\ UNCHANGED faults
        /\ UNCHANGED <<textVars, logVars, tz, page, health_insights, daily_logs, lifestyle_logs, logWrites>>

\* ------------------------------------------------------------------------
\* POST /api/logs, statement by statement, with its transaction
\* ------------------------------------------------------------------------

\* dates of the request bodies; the last one is not YYYY-MM-DD
LogRequestDates == {<<"2", "0", "2", "4", "-", "0", "1", "-", "1", "5">>, <<"2", "0", "2", "4", "-", "0", "1", "-", "1", "6">>, <<"1", "5", "-", "0", "1", "-", "2", "0", "2", "4">>}

\* mood, notes, symptoms and medications of the request bodies
LogBodies ==
    {[mood |-> 2, notes |-> "tired",
      symptoms |-> <<[name |-> "headache", severity |-> 2, notes |-> ""]>>,
      medications |-> <<>>],
     [mood |-> 4, notes |-> "",
      symptoms |-> <<>>,
      medications |-> <<[name |-> "ibuprofen", dosage |-> "", taken |-> TRUE]>>],
     [mood |-> 3, notes |-> "better",
      symptoms |-> <<[name |-> "headache", severity |-> 1, notes |-> "after lunch"],
                     [name |-> "nausea", severity |-> 3, notes |-> ""]>>,
      medications |-> <<[name |-> "ibuprofen", dosage |-> "200mg", taken |-> FALSE]>>]}

\* lines 704-709: the rows of the symptoms of a body, symptom.notes || null
symptomRows(logId, list) ==
    [k \in 1..Len(list) |->
        [daily_log_id |-> logId, name |-> list[k].name,
         severity |-> list[k].severity, notes |-> IF list[k].notes = "" THEN Null ELSE list[k].notes]]

\* lines 717-722: the rows of the medications of a body, med.dosage || null
medicationRows(logId, list) ==
    [k \in 1..Len(list) |->
        [daily_log_id |-> logId, name |-> list[k].name,
         dosage |-> IF list[k].dosage = "" THEN Null ELSE list[k].dosage,
         taken |-> list[k].taken]]

\* the rows of a table that the DELETE for a daily log leaves
\* the DELETEs left out: every row stays
rowsOfAnyLog(table, logId) == table

rowsOfOtherLogs(table, logId) == SelectSeq(table, LAMBDA r : r.daily_log_id # logId)

\* SELECT id FROM daily_logs WHERE user_id = ? AND date = ?
logIds(userId, date) ==
    LET rows == SelectSeq(daily_logs, LAMBDA r : r.user_id = userId /\ r.date = date)
    IN  [k \in 1..Len(rows) |-> rows[k].id]

\* another open transaction has written the daily log of (userId, date) and
\* holds its row lock, or the lock of its place in the unique index
lockedByOther(p, userId, date) ==
    \E q \in Procs \ {p} :
        posts[q].locked /\ posts[q].userId = userId /\ posts[q].date = date

\* the tables before the requests: empty, or with one log, its symptom and
\* its medication
InitLogs ==
    /\ tz = 0
    /\ health_insights = <<OtherUsersInsight>>
    /\ lifestyle_logs = <<>>
    /\ calls = [p \in Procs |-> IdleCall]
    /\ logWrites = 0
    /\ faults = 0
    /\ argument = <<>> /\ applied = "none" /\ returned = Null
    /\ posts = [p \in Procs |-> IdlePost]
    /\ page = IdlePage
    /\ \/ /\ daily_logs = <<>>
          /\ symptoms = <<>>
          /\ medication_logs = <<>>
          /\ nextId = 1
       \/ /\ daily_logs = <<[id |-> 1, user_id |-> 1, date |-> <<"2", "0", "2", "4", "-", "0", "1", "-", "1", "5">>,
                             mood |-> 1, notes |-> "old"]>>
          /\ symptoms = <<[daily_log_id |-> 1, name |-> "fever", severity |-> 3, notes |-> Null]>>
          /\ medication_logs = <<[daily_log_id |-> 1, name |-> "aspirin", dosage |-> Null, taken |-> TRUE]>>
          /\ nextId = 2

\* lines 666-678: the date is tested, a connection is taken and the
\* transaction begins
LogStart(p, userId, date, body) ==
    /\ posts[p].pc = "idle"
    /\ posts' = [posts EXCEPT ![p] =
          IF DateFormatOK(date)
          THEN [IdlePost EXCEPT !.pc = "select", !.userId = userId, !.date = date,
                                !.body = body]
          ELSE [IdlePost EXCEPT !.pc = "done", !.userId = userId, !.date = date,
                                !.body = body, !.status = 400]]
    /\ UNCHANGED <<daily_logs, symptoms, medication_logs, nextId, faults>>
    /\ UNCHANGED <<textVars, tz, page, health_insights, lifestyle_logs, calls, logWrites>>

\* lines 681-686: the SELECT reads the committed rows
LogSelect(p) ==
    /\ posts[p].pc = "select"
    /\ LET existingLogs == logIds(posts[p].userId, posts[p].date)
       IN  posts' = [posts EXCEPT ![p].existingLogs = existingLogs,
                                  ![p].overlapped =
                                      \E q \in Procs \ {p} :
                                          /\ posts[q].pc \notin {"idle", "done"}
                                          /\ posts[q].userId = posts[p].userId
                                          /\ posts[q].date = posts[p].date,
                                  ![p].pc = IF Len(existingLogs) > 0 THEN "update"
                                            ELSE "insert"]
    /\ UNCHANGED <<daily_logs, symptoms, medication_logs, nextId, faults>>
    /\ UNCHANGED <<textVars, tz, page, health_insights, lifestyle_logs, calls, logWrites>>

\* lines 687-695: UPDATE of the log, which waits for the row lock, and the
\* two DELETEs; their effect is seen by others at the commit
LogUpdate(p) ==
    /\ posts[p].pc = "update"
    /\ ~lockedByOther(p, posts[p].userId, posts[p].date)
    /\ posts' = [posts EXCEPT ![p].logId = posts[p].existingLogs[1],
                              ![p].locked = TRUE, ![p].updates = TRUE,
                              ![p].pc = "items"]
    /\ UNCHANGED <<daily_logs, symptoms, medication_logs, nextId, faults>>
    /\ UNCHANGED <<textVars, tz, page, health_insights, lifestyle_logs, calls, logWrites>>

\* lines 696-702: INSERT of the log, which waits while another transaction
\* holds the place of (user_id, date) in the unique index and fails when a
\* committed row has it; the catch of lines 733-735 rolls back and line 741
\* answers 500
LogInsert(p) ==
    /\ posts[p].pc = "insert"
    /\ ~lockedByOther(p, posts[p].userId, posts[p].date)
    /\ IF Len(logIds(posts[p].userId, posts[p].date)) > 0
       THEN /\ posts' = [posts EXCEPT ![p].pc = "done", ![p].status = 500]
            /\ UNCHANGED nextId
       ELSE /\ posts' = [posts EXCEPT ![p].logId = nextId, ![p].locked = TRUE,
                                      ![p].pc = "items"]
            /\ nextId' = nextId + 1
    /\ UNCHANGED <<daily_logs, symptoms, medication_logs, faults>>
    /\ UNCHANGED <<textVars, tz, page, health_insights, lifestyle_logs, calls, logWrites>>

\* lines 703-729: the INSERTs of the symptoms and medications of the body
LogItems(p) ==
    /\ posts[p].pc = "items"
    /\ posts' = [posts EXCEPT
          ![p].symptomValues = symptomRows(posts[p].logId, posts[p].body.symptoms),
          ![p].medicationValues = medicationRows(posts[p].logId, posts[p].body.medications),
          ![p].pc = "commit"]
    /\ UNCHANGED <<daily_logs, symptoms, medication_logs, nextId, faults>>
    /\ UNCHANGED <<textVars, tz, page, health_insights, lifestyle_logs, calls, logWrites>>

\* lines 730-733: commit, and the answer 201; after holds what the tables
\* have for the log right after the commit
LogCommit(p) ==
    /\ posts[p].pc = "commit"
    /\ LET c == posts[p]
       IN  /\ daily_logs' =
                 IF c.updates
                 THEN [k \in 1..Len(daily_logs) |->
                          IF daily_logs[k].id = c.logId
                          THEN [daily_logs[k] EXCEPT !.mood = c.body.mood,
                                                     !.notes = c.body.notes]
                          ELSE daily_logs[k]]
                 ELSE Append(daily_logs,
                             [id |-> c.logId, user_id |-> c.userId, date |-> c.date,
                              mood |-> c.body.mood, notes |-> c.body.notes])
           /\ symptoms' = rowsOfOtherLogs(symptoms, c.logId) \o c.symptomValues
           /\ medication_logs' =
                 rowsOfOtherLogs(medication_logs, c.logId) \o c.medicationValues
    /\ posts' = [posts EXCEPT
          ![p].pc = "done", ![p].locked = FALSE, ![p].status = 201,
          ![p].after = [logs        |-> SelectSeq(daily_logs', LAMBDA r :
                                            r.user_id = posts[p].userId /\ r.date = posts[p].date),
                        symptoms    |-> SelectSeq(symptoms', LAMBDA r :
                                            r.daily_log_id = posts[p].logId),
                        medications |-> SelectSeq(medication_logs', LAMBDA r :
                                            r.daily_log_id = posts[p].logId)]]
    /\ UNCHANGED <<nextId, faults>>
    /\ UNCHANGED <<textVars, tz, page, health_insights, lifestyle_logs, calls, logWrites>>

\* lines 733-742: a statement of the transaction fails; rollback, release,
\* and the answer 500
LogRollback(p) ==
    /\ posts[p].pc \in {"select", "update", "insert", "items", "commit"}
    /\ QueryFails
    /\ posts' = [posts EXCEPT ![p].pc = "done", ![p].locked = FALSE, ![p].status = 500]
    /\ UNCHANGED <<daily_logs, symptoms, medication_logs, nextId>>
    /\ UNCHANGED <<textVars, tz, page, health_insights, lifestyle_logs, calls, logWrites>>

\* ------------------------------------------------------------------------
\* The Health Insights page (src/pages/HealthInsights.tsx), fetchData
\* followed await by await. Its requests are answered within the step:
\* POST /api/insights/generate by the first statements of the route, the
\* other routes by an answer drawn from a few samples, or by a failure.
\* ------------------------------------------------------------------------

\* the answers of GET /api/logs/latest-timestamp: null for a user with no
\* log and no activity, else the newest timestamp
LatestTimestamps == {Null, <<"2", "0", "2", "4", "-", "0", "1", "-", "0", "8">>, <<"2", "0", "2", "4", "-", "0", "1", "-", "1", "5">>}

\* records as GET /api/insights/history returns them
PageRecords ==
    {[date |-> <<"2", "0", "2", "4", "-", "0", "1", "-", "0", "8">>, generated_date |-> <<"2", "0", "2", "4", "-", "0", "1", "-", "0", "8", " ", "1", "0", ":", "3", "0", ":", "0", "0">>,
      title |-> <<"S", "l", "e", "e", "p", " ", "P", "a", "t", "t", "e", "r", "n">>],
     [date |-> <<"2", "0", "2", "4", "-", "0", "1", "-", "1", "5">>, generated_date |-> <<"2", "0", "2", "4", "-", "0", "1", "-", "1", "5", " ", "1", "0", ":", "3", "0", ":", "0", "0">>,
      title |-> <<"H", "y", "d", "r", "a", "t", "i", "o", "n", " ", "I", "m", "p", "a", "c", "t">>],
     [date |-> <<>>, generated_date |-> <<"2", "0", "2", "4", "-", "0", "1", "-", "1", "2", " ", "1", "0", ":", "3", "0", ":", "0", "0">>,
      title |-> <<"S", "l", "e", "e", "p", " ", "P", "a", "t", "t", "e", "r", "n">>]}

\* the answers of GET /api/insights/history?days=7
HistoryResponses ==
    {<<>>} \cup {<<a>> : a \in PageRecords}
           \cup {<<a, b>> : a \in PageRecords, b \in PageRecords}

\* new Date(x).getTime() in days; the samples are all in one month, and
\* new Date(null).getTime() is 0
getTime(x) == IF x = Null THEN 0 ELSE DayNumber(x)

\* api.ts lines 142-143: api.post('/insights/generate') has no data
\* argument, so the request carries no body and no date
generateInsight == [date |-> <<>>]

\* index.js lines 1559-1565 as the page sees them: without a date the
\* route answers 400; with one it goes on (GenerateStart and the steps
\* after it) and answers with a record or with 500
generateResponses(body) ==
    IF Len(body.date) = 0
    THEN {[status |-> 400, data |-> [message |-> "Date is required"]]}
    ELSE {[status |-> 200, data |-> a] : a \in PageRecords}
             \cup {[status |-> 500,
                    data |-> [message |-> "Server error while generating insight"]]}

\* lines 123-127: Array.prototype.sort with dateB - dateA, newest first,
\* records of equal time in their order
RECURSIVE sortedInsights(_)
sortedInsights(data) ==
    IF Len(data) <= 1 THEN data
    ELSE LET time(a) == getTime(IF a.date # <<>> THEN a.date ELSE a.generated_date)
             rest == sortedInsights(Tail(data))
             n == Cardinality({i \in 1..Len(rest) : time(rest[i]) > time(Head(data))})
         IN  SubSeq(rest, 1, n) \o <<Head(data)>> \o SubSeq(rest, n + 1, Len(rest))

\* lines 161-167: the outer catch and the finally block
fetchFailed(pg) ==
    [pg EXCEPT !.pc = "done", !.isLoading = FALSE, !.isRefreshing = FALSE,
               !.error = [message |-> "Failed to load insights. Please try again."]]

\* lines 106-112: fetchData is called (on mount, on a refresh)
FetchData ==
    /\ page.pc \in {"idle", "done"}
    /\ page.fetches < MaxFetches
    /\ page' = [page EXCEPT !.pc = "timestamp", !.isRefreshing = TRUE, !.error = Null,
                            !.generateResponse = Null, !.historyResponse = Null,
                            !.fetches = @ + 1]
    /\ UNCHANGED <<tz, health_insights, daily_logs, lifestyle_logs, calls, logWrites,
                   faults, textVars, logVars>>

\* lines 112-115: the latest log timestamp returns, or the request fails
PageTimestamp(timestamp, ok) ==
    /\ page.pc = "timestamp"
    /\ page' = IF ~ok THEN fetchFailed(page)
               ELSE [page EXCEPT !.latestLogTime = getTime(timestamp),
                                 !.pc = IF getTime(timestamp) > page.lastInsightTime
                                        THEN "generate" ELSE "history"]
    /\ UNCHANGED <<tz, health_insights, daily_logs, lifestyle_logs, calls, logWrites,
                   faults, textVars, logVars>>

\* lines 117-119 and 131-133: the generate request returns; axios throws on
\* a status outside 2xx, which the inner catch answers with a history fetch
PageGenerate(response) ==
    /\ page.pc = "generate"
    /\ response \in generateResponses(generateInsight)
    /\ page' = [page EXCEPT !.generateResponse = response,
                            !.pc = IF response.status = 200
                                   THEN "historyAfterGenerate"
                                   ELSE "historyAfterFailure"]
    /\ UNCHANGED <<tz, health_insights, daily_logs, lifestyle_logs, calls, logWrites,
                   faults, textVars, logVars>>

\* lines 120-129, 134-140, 144-150: the history request returns and its
\* records are shown, or it fails
PageHistory(data, ok) ==
    /\ page.pc \in {"historyAfterGenerate", "historyAfterFailure", "history"}
    /\ page' = IF ~ok THEN fetchFailed(page)
               ELSE [page EXCEPT
                       !.historyResponse = data,
                       !.insights = sortedInsights(data),
                       !.lastInsightTime =
                           IF page.pc = "historyAfterGenerate"
                           THEN getTime(page.generateResponse.data.generated_date)
                           ELSE @,
                       !.pc = "charts"]
    /\ UNCHANGED <<tz, health_insights, daily_logs, lifestyle_logs, calls, logWrites,
                   faults, textVars, logVars>>

\* lines 153-167: the two chart requests return or one fails, and the
\* finally block ends the call
PageCharts(ok) ==
    /\ page.pc = "charts"
    /\ page' = IF ~ok THEN fetchFailed(page)
               ELSE [page EXCEPT !.pc = "done", !.isLoading = FALSE,
                                 !.isRefreshing = FALSE]
    /\ UNCHANGED <<tz, health_insights, daily_logs, lifestyle_logs, calls, logWrites,
                   faults, textVars, logVars>>

\* ------------------------------------------------------------------------
\* Log histories for the date selection of GET /api/insights/history
\* ------------------------------------------------------------------------

\* log dates of a short history
HistoryLogDates == {<<"2", "0", "2", "4", "-", "0", "1", "-", "0", "1">>, <<"2", "0", "2", "4", "-", "0", "1", "-", "0", "3">>, <<"2", "0", "2", "4", "-", "0", "1", "-", "0", "5">>}

\* log dates of a history longer than the default number of days
LongHistoryDates == {FormatDay(n) : n \in 1..(DefaultDays + 1)}

\* the days parameter: absent, zero, not a number, and numbers below, at and
\* above the number of log dates, and negative numbers
DaysParamsWide == {<<>>, <<"0">>, <<"a", "b", "c">>, <<"1">>, <<"2">>, <<"3">>, <<"5">>, <<"-", "1">>, <<"-", "2">>, <<"-", "9">>}

\* rows of a log table for a user, one per date, in date order
logRows(userId, dates) ==
    LET sorted == sortStrings(dates)
    IN  [i \in 1..Len(sorted) |-> [user_id |-> userId, date |-> sorted[i]]]

\* insight rows stored earlier for a user, one per date
storedInsights(userId, dates) ==
    LET sorted == sortStrings(dates)
    IN  [i \in 1..Len(sorted) |-> noActionable(userId, sorted[i])]

\* the tables at the start: a short history split over the two log tables
\* and no insight of the user, or a long history whose dates but the last
\* have their insight stored
InitDates ==
    /\ tz = 0
    /\ \/ /\ health_insights = <<OtherUsersInsight>>
          /\ \E D \in SUBSET HistoryLogDates :
                daily_logs = <<OtherUsersLog>> \o logRows(1, D)
          /\ \E L \in {{}, {<<"2", "0", "2", "4", "-", "0", "1", "-", "0", "1">>, <<"2", "0", "2", "4", "-", "0", "1", "-", "0", "5">>}} :
                lifestyle_logs = logRows(1, L)
       \/ /\ health_insights = <<OtherUsersInsight>>
                \o storedInsights(1, LongHistoryDates \ {FormatDay(DefaultDays + 1)})
          /\ daily_logs = <<OtherUsersLog>> \o logRows(1, LongHistoryDates)
          /\ lifestyle_logs = <<>>
    /\ calls = [p \in Procs |-> IdleCall]
    /\ logWrites = 0
    /\ faults = 0
    /\ argument = <<>> /\ applied = "none" /\ returned = Null
    /\ NoPosts
    /\ page = IdlePage

\* ------------------------------------------------------------------------
\* determineCategory and extractActionableInsight applied on their own
\* ------------------------------------------------------------------------

\* the keywords of determineCategory and a word that is none of them
CategoryWords ==
    {<<"s", "l", "e", "e", "p">>, <<"e", "x", "e", "r", "c", "i", "s", "e">>, <<"a", "c", "t", "i", "v", "i", "t", "y">>, <<"w", "a", "t", "e", "r">>, <<"h", "y", "d", "r", "a", "t", "i", "o", "n">>, <<"m", "o", "o", "d">>, <<"e", "m", "o", "t", "i", "o", "n", "a", "l">>,
     <<"s", "y", "m", "p", "t", "o", "m">>, <<"p", "a", "i", "n">>, <<"m", "e", "d", "i", "c", "a", "t", "i", "o", "n">>, <<"m", "e", "d", "i", "c", "i", "n", "e">>, <<"r", "e", "s", "t">>}

\* texts to classify: two words each, in both orders, and mixed case
ClassifyTexts ==
    {a \o <<" ", "a", "n", "d", " ">> \o b : a, b \in CategoryWords}
        \cup {<<"E", "x", "e", "r", "c", "i", "s", "e", " ", "i", "m", "p", "r", "o", "v", "e", "s", " ", "S", "L", "E", "E", "P", " ", "q", "u", "a", "l", "i", "t", "y">>, <<"N", "o", "t", "h", "i", "n", "g", " ", "t", "o", " ", "r", "e", "p", "o", "r", "t">>}

\* titles and contents of lines 'Title: Content'
PairTitles == {<<"S", "l", "e", "e", "p", " ", "P", "a", "t", "t", "e", "r", "n">>, <<"H", "y", "d", "r", "a", "t", "i", "o", "n">>, <<"I", "n", "s", "i", "g", "h", "t">>, <<"S", "u", "m", "m", "a", "r", "y">>}

PairContents ==
    {<<"Y", "o", "u", "r", " ", "m", "o", "o", "d", " ", "h", "a", "s", " ", "b", "e", "e", "n", " ", "l", "o", "w", " ", "(", "2", "-", "3", "/", "5", ")", " ", "f", "o", "r", " ", "3", " ", "d", "a", "y", "s", ".", " ", "T", "r", "y", ":", " ", "1", ")", " ", "X", ",", " ", "2", ")", " ", "Y", ",", " ", "3", ")", " ", "Z", ".">>,
     <<"D", "r", "i", "n", "k", " ", "m", "o", "r", "e", " ", "w", "a", "t", "e", "r", " ", "e", "v", "e", "r", "y", " ", "d", "a", "y">>, <<"t", "o", "o", " ", "s", "h", "o", "r", "t">>, <<"H", "e", "r", "e", " ", "i", "s", " ", "t", "h", "e", " ", "i", "n", "s", "i", "g", "h", "t">>}

PairLines ==
    {t \o <<":", " ">> \o c : t \in PairTitles, c \in PairContents}
        \cup {<<"*", "*", " ", ":", " ", "D", "r", "i", "n", "k", " ", "m", "o", "r", "e", " ", "w", "a", "t", "e", "r", " ", "e", "v", "e", "r", "y", " ", "d", "a", "y">>,
              <<"I", "n", "s", "i", "g", "h", "t", " ", ":", " ", "D", "r", "i", "n", "k", " ", "m", "o", "r", "e", " ", "w", "a", "t", "e", "r", " ", "e", "v", "e", "r", "y", " ", "d", "a", "y">>,
              <<"*", "*", "T", "i", "t", "l", "e", ":", " ", "H", "e", "a", "d", "a", "c", "h", "e", " ", "P", "a", "t", "t", "e", "r", "n", ":", " ", "p", "a", "i", "n", " ", "o", "n", " ", "4", " ", "d", "a", "y", "s", "*", "*">>}

\* lines that carry no insight: time zones, clock times, preambles, headers
NoiseLines ==
    {<<"G", "M", "T", "+", "0", "0", "0", "0">>, <<"G", "e", "n", "e", "r", "a", "t", "e", "d", " ", "a", "t", " ", "1", "0", ":", "3", "0">>, <<"I", "n", "s", "i", "g", "h", "t", ":">>, <<"H", "e", "r", "e", " ", "a", "r", "e", " ", "3", " ", "i", "n", "s", "i", "g", "h", "t", "s", ":">>,
     <<"H", "e", "r", "e", " ", "a", "r", "e", " ", "1", "0", " ", "i", "n", "s", "i", "g", "h", "t", "s", ":">>,
     <<"H", "e", "r", "e", " ", "a", "r", "e", " ", "3", " ", "c", "o", "n", "c", "r", "e", "t", "e", ",", " ", "a", "c", "t", "i", "o", "n", "a", "b", "l", "e", ",", " ", "c", "o", "n", "t", "e", "x", "t", "-", "a", "w", "a", "r", "e", " ", "i", "n", "s", "i", "g", "h", "t", "s", ":">>,
     <<"H", "e", "r", "e", " ", "a", "r", "e", " ", "t", "h", "e", " ", "g", "e", "n", "e", "r", "a", "t", "e", "d", " ", "h", "e", "a", "l", "t", "h", " ", "i", "n", "s", "i", "g", "h", "t", "s", ":">>}

\* lines without a colon
PlainLines ==
    {<<"D", "r", "i", "n", "k", " ", "m", "o", "r", "e", " ", "w", "a", "t", "e", "r", " ", "e", "v", "e", "r", "y", " ", "m", "o", "r", "n", "i", "n", "g">>, <<"W", "a", "l", "k", " ", "a", " ", "b", "i", "t">>, TextEscape,
     <<"_", "W", "a", "l", "k", " ", "f", "o", "r", " ", "t", "w", "e", "n", "t", "y", " ", "m", "i", "n", "u", "t", "e", "s", " ", "a", "f", "t", "e", "r", " ", "l", "u", "n", "c", "h", "_">>,
     <<"T", "h", "e", "r", "e", " ", "i", "s", " ", "n", "o", "t", " ", "e", "n", "o", "u", "g", "h", " ", "d", "a", "t", "a", " ", "f", "o", "r", " ", "t", "h", "i", "s", " ", "w", "e", "e", "k">>}

ExtractLines == PairLines \cup NoiseLines \cup PlainLines

\* a content twice as long as the extractor keeps, a content of exactly the
\* length it keeps, and a title longer than it keeps
LongContent == [i \in 1..(2 * ContentMax) |-> "a"]

FullContent == [i \in 1..ContentMax |-> "b"]

LongTitle == [i \in 1..(TitleMax + 45) |-> "t"]

LongTexts ==
    {<<"S", "l", "e", "e", "p", " ", "P", "a", "t", "t", "e", "r", "n", ":", " ">> \o LongContent, LongContent,
     <<"S", "l", "e", "e", "p", " ", "P", "a", "t", "t", "e", "r", "n", ":", " ">> \o FullContent,
     LongTitle \o <<":", " ", "D", "r", "i", "n", "k", " ", "m", "o", "r", "e", " ", "w", "a", "t", "e", "r", " ", "e", "v", "e", "r", "y", " ", "d", "a", "y">>}

\* completion texts: nothing, one line, two lines, and the long ones
ExtractTexts ==
    {<<>>} \cup ExtractLines
        \cup {a \o <<"\n">> \o b : a, b \in ExtractLines}
        \cup LongTexts

\* the date of the request whose completion text is read
ExtractDate == <<"2", "0", "2", "4", "-", "0", "1", "-", "1", "5">>

\* a text is chosen; no request is in progress
InitText ==
    /\ tz = 0
    /\ health_insights = <<OtherUsersInsight>>
    /\ daily_logs = <<OtherUsersLog>>
    /\ lifestyle_logs = <<>>
    /\ calls = [p \in Procs |-> IdleCall]
    /\ logWrites = 0
    /\ faults = 0
    /\ argument \in ClassifyTexts \cup ExtractTexts
    /\ applied = "none"
    /\ returned = Null
    /\ NoPosts
    /\ page = IdlePage

\* determineCategory(argument)
Classify ==
    /\ applied = "none"
    /\ applied' = "determineCategory"
    /\ returned' = determineCategory(argument)
    /\ UNCHANGED <<argument, logVars, tz, page, health_insights, daily_logs, lifestyle_logs, calls,
                   logWrites, faults>>

\* lines 1659-1681: extractActionableInsight(argument) and the record the
\* pipeline builds from what it returns
Extract ==
    /\ applied = "none"
    /\ applied' = "extractActionableInsight"
    /\ returned' = [actionable |-> analyse(argument).actionable,
                    record     |-> insightOf(1, ExtractDate, analyse(argument))]
    /\ UNCHANGED <<argument, logVars, tz, page, health_insights, daily_logs, lifestyle_logs, calls,
                   logWrites, faults>>

\* ------------------------------------------------------------------------
\* Properties
\* ------------------------------------------------------------------------

GenerateCalls == {p \in Procs : calls[p].route = "generate"}

HistoryCalls == {p \in Procs : calls[p].route = "history"}

FinishedGenerate == {p \in GenerateCalls : calls[p].pc = "done"}

\* the finished runs of all requests, each with its request slot
FinishedRuns == UNION {{<<p, k>> : k \in 1..Len(calls[p].runs)} : p \in Procs}

RunAt(pk) == calls[pk[1]].runs[pk[2]]

RowsFor(userId, date) ==
    {i \in 1..Len(health_insights) :
        /\ health_insights[i].user_id = userId
        /\ SubSeq(health_insights[i].generated_date, 1, 10) = date}

IsStored(record) == \E i \in 1..Len(health_insights) : health_insights[i] = record

TargetDate == <<"2", "0", "2", "4", "-", "0", "1", "-", "1", "5">>

\* C1: a generate call made when the table already holds a record for its
\* (user, date) makes no completion call and writes no row, and, its SELECT
\* having returned, answers 200 with a stored record of that user and day.
C1_CacheHitUnchanged ==
    \A p \in GenerateCalls :
        calls[p].run.stored > 0 =>
            /\ calls[p].run.completions = 0
            /\ calls[p].run.writes = 0
            /\ (calls[p].pc = "done" /\ ~calls[p].run.storeError) =>
                  /\ calls[p].status = 200
                  /\ calls[p].body \in {health_insights[i] :
                                          i \in RowsFor(calls[p].userId, calls[p].date)}

C1_Witness ==
    \E p \in FinishedGenerate :
        /\ calls[p].run.stored > 0
        /\ calls[p].status = 200
        /\ calls[p].body.title = <<"S", "l", "e", "e", "p", " ", "P", "a", "t", "t", "e", "r", "n">>

\* C2: of two generate calls made one after the other for a (user, date)
\* that had no record, the second finds the row of the first, makes no
\* completion call and returns the same title, content and category, and
\* one row is stored for that (user, date).
C2_SequentialIdempotency ==
    (/\ faults = 0
     /\ calls[1].route = "generate" /\ calls[1].pc = "done"
     /\ calls[2].route = "generate" /\ calls[2].pc = "done"
     /\ calls[1].userId = calls[2].userId
     /\ calls[1].date = TargetDate /\ calls[2].date = TargetDate
     /\ calls[1].run.stored = 0)
    => /\ calls[1].status = 200 /\ calls[2].status = 200
       /\ calls[2].run.found
       /\ calls[2].run.completions = 0
       /\ calls[2].body.title = calls[1].body.title
       /\ calls[2].body.content = calls[1].body.content
       /\ calls[2].body.category = calls[1].body.category
       /\ calls[2].body.generated_date = <<"2", "0", "2", "4", "-", "0", "1", "-", "1", "5", " ", "0", "0", ":", "0", "0", ":", "0", "0">>
       /\ Cardinality(RowsFor(calls[1].userId, TargetDate)) = 1

\* C3: with requests made one after the other, the table holds at most one
\* record per (user_id, day of generated_date).
C3_AtMostOnePerDay ==
    \A i, j \in 1..Len(health_insights) :
        (/\ health_insights[i].user_id = health_insights[j].user_id
         /\ SubSeq(health_insights[i].generated_date, 1, 10)
              = SubSeq(health_insights[j].generated_date, 1, 10))
        => i = j

C3_Witness ==
    /\ calls[1].pc = "done" /\ calls[2].pc = "done"
    /\ calls[1].route = "generate" /\ calls[2].route = "history"
    /\ calls[1].date = TargetDate
    /\ \E k \in 1..Len(calls[2].runs) :
          calls[2].runs[k].date = TargetDate /\ calls[2].runs[k].found
    /\ Cardinality(RowsFor(1, TargetDate)) = 1
    /\ Cardinality(RowsFor(1, <<"2", "0", "2", "4", "-", "0", "1", "-", "0", "8">>)) = 1

\* C4: two runs of different requests for the same (user, date) that both
\* saw no record at their existence check and both inserted leave two
\* records for that (user, date); each made its own completion call when
\* its window held logs.
C4_DuplicateGenerationRace ==
    \A a, b \in FinishedRuns :
        (/\ a[1] # b[1]
         /\ calls[a[1]].userId = calls[b[1]].userId
         /\ RunAt(a).date = RunAt(b).date
         /\ RunAt(a).checked /\ ~RunAt(a).found /\ RunAt(a).writes = 1
         /\ RunAt(b).checked /\ ~RunAt(b).found /\ RunAt(b).writes = 1)
        => /\ Cardinality(RowsFor(calls[a[1]].userId, RunAt(a).date)) >= 2
           /\ RunAt(a).windowEmpty = "no" => RunAt(a).completions = 1
           /\ RunAt(b).windowEmpty = "no" => RunAt(b).completions = 1

\* two runs of the routes ra and rb that raced: two completion calls were
\* made and two records are stored for the date
Raced(ra, rb) ==
    \E a, b \in FinishedRuns :
        /\ a[1] # b[1]
        /\ calls[a[1]].route = ra /\ calls[b[1]].route = rb
        /\ RunAt(a).date = TargetDate /\ RunAt(b).date = TargetDate
        /\ ~RunAt(a).found /\ ~RunAt(b).found
        /\ RunAt(a).completions = 1 /\ RunAt(b).completions = 1
        /\ RunAt(a).writes = 1 /\ RunAt(b).writes = 1
        /\ Cardinality(RowsFor(1, TargetDate)) = 2

C4_Witness == Raced("generate", "history")

C4_WitnessGenerateGenerate == Raced("generate", "generate")

C4_WitnessHistoryHistory == Raced("history", "history")

\* C5: a generate call whose completion request failed (the fetch rejected,
\* the body was not JSON, or the completion field was missing) answers 200
\* with the stored 'No Actionable Insight' record.
C5_CompletionFailureFallsBack ==
    \A p \in FinishedGenerate :
        (/\ calls[p].run.ai \in {"network_error", "not_json", "no_choices"}
         /\ ~calls[p].run.storeError)
        => /\ calls[p].status = 200
           /\ calls[p].body.title = <<"N", "o", " ", "A", "c", "t", "i", "o", "n", "a", "b", "l", "e", " ", "I", "n", "s", "i", "g", "h", "t">>
           /\ IsStored(calls[p].body)

\* C6: a generate call none of whose queries failed ends with status 200 and
\* a record with title, content, category and generated_date, or with a 4xx
\* status for a date that is not YYYY-MM-DD; never with a 5xx status.
C6_CallerVisibleOutcomes ==
    \A p \in FinishedGenerate :
        ~calls[p].run.storeError =>
            \/ /\ calls[p].status = 200
               /\ DateFormatOK(calls[p].date)
               /\ calls[p].body # Null
               /\ Len(calls[p].body.title) > 0 /\ Len(calls[p].body.content) > 0
               /\ Len(calls[p].body.generated_date) > 0
            \/ /\ calls[p].status \in 400..499
               /\ ~DateFormatOK(calls[p].date)

\* C7: a generate call whose date is not YYYY-MM-DD fails, with the
\* date-format error of getExistingInsight when a date was sent, and reads
\* no table, writes no row and makes no completion call.
C7_MalformedDateRejected ==
    \A p \in GenerateCalls :
        ~DateFormatOK(calls[p].date) =>
            /\ calls[p].pc = "done"
            /\ calls[p].status # 200 /\ calls[p].body = Null
            /\ calls[p].run.outcome \in {"failed", "rejected"}
            /\ Len(calls[p].date) > 0 =>
                  calls[p].run.thrown = "Date must be in YYYY-MM-DD format"
            /\ calls[p].run.reads = 0 /\ calls[p].run.logReads = 0
            /\ calls[p].run.writes = 0 /\ calls[p].run.completions = 0

C7_Witness ==
    \E p \in FinishedGenerate :
        /\ calls[p].date = <<"0", "1", "-", "0", "1", "-", "2", "0", "2", "4">>
        /\ calls[p].run.thrown = "Date must be in YYYY-MM-DD format"
        /\ calls[p].run.reads = 0

\* the user has no daily or lifestyle log dated within the 7 days that end
\* on the date
NoLogsInSevenDays(userId, date) ==
    LET day(row) == 10 * DigitValue(row.date[9]) + DigitValue(row.date[10])
        last     == 10 * DigitValue(date[9]) + DigitValue(date[10])
        inside(row) == row.user_id = userId /\ day(row) \in (last - 6)..last
    IN  /\ \A i \in 1..Len(daily_logs) : ~inside(daily_logs[i])
        /\ \A i \in 1..Len(lifestyle_logs) : ~inside(lifestyle_logs[i])

\* C8: a run that found no record and none of whose queries failed, for a
\* user without logs in the 7 days ending on the date, makes no completion
\* call and stores and returns exactly the 'No Health Data' record dated
\* midnight of the date.
C8_NoDataDeterminism ==
    \A a \in FinishedRuns :
        (/\ RunAt(a).checked /\ ~RunAt(a).found /\ ~RunAt(a).storeError
         /\ IsCalendarDate(RunAt(a).date)
         /\ NoLogsInSevenDays(calls[a[1]].userId, RunAt(a).date))
        => /\ RunAt(a).outcome = "returned"
           /\ RunAt(a).record =
                 [user_id |-> calls[a[1]].userId,
                  title |-> <<"N", "o", " ", "H", "e", "a", "l", "t", "h", " ", "D", "a", "t", "a">>,
                  content |-> <<"N", "o", " ", "h", "e", "a", "l", "t", "h", " ", "o", "r", " ", "l", "i", "f", "e", "s", "t", "y", "l", "e", " ", "d", "a", "t", "a", " ", "w", "a", "s", " ", "l", "o", "g", "g", "e", "d", " ", "f", "o", "r", " ", "t", "h", "i", "s", " ", "d", "a", "y", ".">>,
                  category |-> "General",
                  generated_date |-> RunAt(a).date \o <<" ", "0", "0", ":", "0", "0", ":", "0", "0">>]
           /\ IsStored(RunAt(a).record)
           /\ RunAt(a).writes = 1
           /\ RunAt(a).completions = 0

C8_Witness ==
    \E p \in FinishedGenerate :
        /\ calls[p].date = TargetDate
        /\ NoLogsInSevenDays(1, TargetDate)
        /\ \E i \in 1..Len(daily_logs) :
              daily_logs[i] = [user_id |-> 1, date |-> <<"2", "0", "2", "4", "-", "0", "1", "-", "0", "8">>]
        /\ calls[p].status = 200
        /\ calls[p].body.title = <<"N", "o", " ", "H", "e", "a", "l", "t", "h", " ", "D", "a", "t", "a">>
        /\ calls[p].run.writes = 1

\* C9: a run whose completion was answered and none of whose queries failed
\* stores and returns the 'No Actionable Insight' record when the extractor
\* returns null for the completion text, and otherwise the title and
\* content the extractor returned.
C9_NullBecomesFallback ==
    \A a \in FinishedRuns :
        (/\ RunAt(a).ai \in {"no_choices", "text"}
         /\ ~RunAt(a).storeError)
        => /\ RunAt(a).outcome = "returned"
           /\ RunAt(a).writes = 1
           /\ IsStored(RunAt(a).record)
           /\ IF Analysed[RunAt(a).aiAnalysis].actionable = Null
              THEN RunAt(a).record =
                      [user_id |-> calls[a[1]].userId,
                       title |-> <<"N", "o", " ", "A", "c", "t", "i", "o", "n", "a", "b", "l", "e", " ", "I", "n", "s", "i", "g", "h", "t">>,
                       content |-> <<"N", "o", " ", "a", "c", "t", "i", "o", "n", "a", "b", "l", "e", " ", "h", "e", "a", "l", "t", "h", " ", "i", "n", "s", "i", "g", "h", "t", " ", "c", "o", "u", "l", "d", " ", "b", "e", " ", "g", "e", "n", "e", "r", "a", "t", "e", "d", " ", "f", "o", "r", " ", "t", "h", "i", "s", " ", "d", "a", "y", ".">>,
                       category |-> "General",
                       generated_date |-> RunAt(a).date \o <<" ", "0", "0", ":", "0", "0", ":", "0", "0">>]
              ELSE /\ RunAt(a).record.title = Analysed[RunAt(a).aiAnalysis].actionable.title
                   /\ RunAt(a).record.content
                         = Analysed[RunAt(a).aiAnalysis].actionable.content

C9_Witness ==
    \E a, b \in FinishedRuns :
        /\ calls[a[1]].route = "generate" /\ calls[b[1]].route = "history"
        /\ RunAt(a).ai = "no_choices" /\ RunAt(a).aiAnalysis = <<>>
        /\ RunAt(a).outcome = "returned"
        /\ RunAt(a).record.title = <<"N", "o", " ", "A", "c", "t", "i", "o", "n", "a", "b", "l", "e", " ", "I", "n", "s", "i", "g", "h", "t">>
        /\ RunAt(b).ai = "text" /\ Len(RunAt(b).aiAnalysis) > 0
        /\ Analysed[RunAt(b).aiAnalysis].actionable = Null
        /\ RunAt(b).outcome = "returned"
        /\ RunAt(b).record.title = <<"N", "o", " ", "A", "c", "t", "i", "o", "n", "a", "b", "l", "e", " ", "I", "n", "s", "i", "g", "h", "t">>

\* C10: a generate call writes at most one row and makes at most one
\* completion call, and writes a row only after its own existence check
\* found no record; the rows of the table are the initial row and the rows
\* the runs wrote.
C10_BoundedSideEffects ==
    /\ \A p \in GenerateCalls :
          /\ calls[p].run.writes \in {0, 1}
          /\ calls[p].run.completions \in {0, 1}
          /\ calls[p].run.writes = 1 => (calls[p].run.checked /\ ~calls[p].run.found)
    /\ Len(health_insights) =
          1 + Cardinality({a \in FinishedRuns : RunAt(a).writes = 1})

C10_Witness ==
    \E p \in FinishedGenerate :
        /\ calls[p].run.writes = 1
        /\ calls[p].run.completions = 1
        /\ calls[p].status = 200

\* the log dates of a user in the two log tables, ascending
AllLogDates(userId) ==
    sortStrings({daily_logs[i].date : i \in {j \in 1..Len(daily_logs) :
                                               daily_logs[j].user_id = userId}}
                \cup {lifestyle_logs[i].date : i \in {j \in 1..Len(lifestyle_logs) :
                                               lifestyle_logs[j].user_id = userId}})

\* the last w entries of a sequence, all of it when it is shorter
LastEntries(s, w) == SubSeq(s, Len(s) - (IF w < Len(s) THEN w ELSE Len(s)) + 1, Len(s))

DatesSelected(p) ==
    /\ calls[p].route = "history"
    /\ calls[p].pc \notin {"idle", "dailyDates", "lifestyleDates"}
    /\ (faults = 0 \/ calls[p].dates # <<>>)

\* the dates of the runs a history request has begun, in the order it began them
ProcessedDates(p) ==
    [k \in 1..Len(calls[p].runs) |-> calls[p].runs[k].date]
        \o (IF calls[p].pc \in {"check", "daily", "lifestyle", "fetch", "insert"}
            THEN <<calls[p].run.date>> ELSE <<>>)

\* C11: the days parameter is 7 when it is missing, zero or not a number;
\* for days >= 1 a history request whose date queries did not fail processes
\* exactly the last min(days, n) of the user's n ascending, distinct log
\* dates, the most recent one among them, each once and in ascending order.
C11_HistoryDateSelection ==
    /\ daysParam(<<>>) = 7 /\ daysParam(<<"0">>) = 7 /\ daysParam(<<"a", "b", "c">>) = 7
    /\ daysParam(<<"2">>) = 2
    /\ \A p \in Procs :
          DatesSelected(p) /\ calls[p].days >= 1 =>
              LET all      == AllLogDates(calls[p].userId)
                  expected == LastEntries(all, calls[p].days)
              IN  /\ calls[p].dates = expected
                  /\ all # <<>> => expected[Len(expected)] = all[Len(all)]
                  /\ ProcessedDates(p) = SubSeq(expected, 1, Len(ProcessedDates(p)))
                  /\ calls[p].pc = "done" => ProcessedDates(p) = expected

C11_Witness ==
    \E p \in Procs :
        /\ calls[p].route = "history" /\ calls[p].pc = "done" /\ calls[p].days = 2
        /\ AllLogDates(1) = <<<<"2", "0", "2", "4", "-", "0", "1", "-", "0", "1">>, <<"2", "0", "2", "4", "-", "0", "1", "-", "0", "3">>, <<"2", "0", "2", "4", "-", "0", "1", "-", "0", "5">>>>
        /\ ProcessedDates(p) = <<<<"2", "0", "2", "4", "-", "0", "1", "-", "0", "3">>, <<"2", "0", "2", "4", "-", "0", "1", "-", "0", "5">>>>
        /\ Len(calls[p].results) = 2

\* a request without a days parameter over the long history has processed
\* its last 7 dates
C11_WitnessDefaultDays ==
    \E p \in Procs :
        /\ calls[p].route = "history" /\ calls[p].pc = "done" /\ calls[p].days = 7
        /\ Len(AllLogDates(1)) = 8
        /\ ProcessedDates(p) = SubSeq(AllLogDates(1), 2, 8)

\* the records of the runs of a request that returned one, in run order
ReturnedRecords(runs) ==
    LET hasRecord(r) == r.outcome = "returned"
        kept == SelectSeq(runs, hasRecord)
    IN  [k \in 1..Len(kept) |-> kept[k].record]

\* C12: in a history request a date whose processing fails (a query, the
\* completion request or its body) is the only one omitted: every selected
\* date is still processed, the request answers 200, and the result holds
\* the record of every date that did not fail, in ascending date order.
C12_HistoryFailureIsolation ==
    \A p \in Procs :
        calls[p].route = "history" =>
            /\ calls[p].status \in {0, 200}
            /\ calls[p].results = ReturnedRecords(calls[p].runs)
            /\ \A k \in 1..Len(calls[p].runs) :
                  /\ calls[p].runs[k].date = calls[p].dates[k]
                  /\ calls[p].runs[k].outcome \in {"returned", "failed"}
                  /\ calls[p].runs[k].outcome = "returned" =>
                        SubSeq(calls[p].runs[k].record.generated_date, 1, 10)
                            = calls[p].dates[k]
                  /\ calls[p].runs[k].outcome = "failed" =>
                        /\ calls[p].runs[k].writes = 0
                        /\ (calls[p].runs[k].storeError
                             \/ calls[p].runs[k].ai \in {"network_error", "not_json"})
            /\ \A j, k \in 1..Len(calls[p].dates) :
                  j < k => StrLess(calls[p].dates[j], calls[p].dates[k])
            /\ calls[p].pc = "done" =>
                  /\ calls[p].status = 200
                  /\ Len(calls[p].runs) = Len(calls[p].dates)

C12_Witness ==
    \E p \in Procs :
        /\ calls[p].route = "history" /\ calls[p].pc = "done" /\ calls[p].status = 200
        /\ Len(calls[p].runs) = 3
        /\ calls[p].runs[1].outcome = "failed" /\ calls[p].runs[1].storeError
        /\ calls[p].runs[2].outcome = "failed" /\ calls[p].runs[2].ai = "not_json"
        /\ calls[p].runs[3].outcome = "returned"
        /\ calls[p].results = <<calls[p].runs[3].record>>
        /\ calls[p].results[1].generated_date = <<"2", "0", "2", "4", "-", "0", "1", "-", "0", "5", " ", "0", "0", ":", "0", "0", ":", "0", "0">>

\* C13: for every date and every time zone offset of the server, a run of
\* either route queries the logs from the date minus 6 days to the date, so
\* the two routes compute the same window start for the same date.
C13_WindowBounds ==
    \A p \in Procs :
        \A r \in {calls[p].run} \cup {calls[p].runs[k] : k \in 1..Len(calls[p].runs)} :
            r.windowStart # <<>> =>
                /\ r.windowStart = FormatDay(DayNumber(r.date) - 6)
                /\ calls[p].pc \in {"daily", "lifestyle"} /\ r = calls[p].run =>
                      calls[p].windowStartStr = FormatDay(DayNumber(r.date) - 6)

\* C14: no step of the insight operations (generate, history, latest, the
\* legacy GET /api/insights) changes or removes a stored row: the table
\* after a step begins with the table before it.
C14_RecordsNeverMutated ==
    [][/\ Len(health_insights') >= Len(health_insights)
       /\ SubSeq(health_insights', 1, Len(health_insights)) = health_insights]_vars

C14_Witness ==
    \E p, q \in Procs :
        /\ calls[p].route \in {"generate", "history"} /\ calls[p].pc = "done"
        /\ calls[q].route = "legacy" /\ calls[q].pc = "done" /\ calls[q].status = 200
        /\ calls[q].run.writes = 1
        /\ Len(health_insights) = 3
        /\ health_insights[1] = OtherUsersInsight
        /\ health_insights[2].title = <<"N", "o", " ", "A", "c", "t", "i", "o", "n", "a", "b", "l", "e", " ", "I", "n", "s", "i", "g", "h", "t">>
        /\ health_insights[3].title = <<"S", "l", "e", "e", "p", " ", "P", "a", "t", "t", "e", "r", "n">>

\* the text that was classified contains the keyword, in any case
HasKeyword(k) == includes(toLowerCase(argument), k)

\* C15: determineCategory returns the category of the first rule, in the
\* order sleep, exercise/activity, water/hydration, mood/emotional,
\* symptom/pain, medication/medicine, whose keyword occurs in the lowercased
\* text, and 'General' when none occurs; a text with 'sleep' and 'exercise'
\* is 'Sleep' wherever the two keywords stand.
C15_ClassificationPriority ==
    applied = "determineCategory" =>
        LET r1 == HasKeyword(<<"s", "l", "e", "e", "p">>)
            r2 == HasKeyword(<<"e", "x", "e", "r", "c", "i", "s", "e">>) \/ HasKeyword(<<"a", "c", "t", "i", "v", "i", "t", "y">>)
            r3 == HasKeyword(<<"w", "a", "t", "e", "r">>) \/ HasKeyword(<<"h", "y", "d", "r", "a", "t", "i", "o", "n">>)
            r4 == HasKeyword(<<"m", "o", "o", "d">>) \/ HasKeyword(<<"e", "m", "o", "t", "i", "o", "n", "a", "l">>)
            r5 == HasKeyword(<<"s", "y", "m", "p", "t", "o", "m">>) \/ HasKeyword(<<"p", "a", "i", "n">>)
            r6 == HasKeyword(<<"m", "e", "d", "i", "c", "a", "t", "i", "o", "n">>) \/ HasKeyword(<<"m", "e", "d", "i", "c", "i", "n", "e">>)
        IN  /\ r1 => returned = "Sleep"
            /\ (~r1 /\ r2) => returned = "Exercise"
            /\ (~r1 /\ ~r2 /\ r3) => returned = "Hydration"
            /\ (~r1 /\ ~r2 /\ ~r3 /\ r4) => returned = "Mood"
            /\ (~r1 /\ ~r2 /\ ~r3 /\ ~r4 /\ r5) => returned = "Symptoms"
            /\ (~r1 /\ ~r2 /\ ~r3 /\ ~r4 /\ ~r5 /\ r6) => returned = "Medication"
            /\ (~r1 /\ ~r2 /\ ~r3 /\ ~r4 /\ ~r5 /\ ~r6) => returned = "General"

C15_Witness ==
    /\ applied = "determineCategory"
    /\ argument = <<"e", "x", "e", "r", "c", "i", "s", "e", " ", "a", "n", "d", " ", "s", "l", "e", "e", "p">>
    /\ returned = "Sleep"

\* the result of the extractor, once it has been applied to the text
Extracted == returned.actionable

\* a generic placeholder, in any case
IsPlaceholder(s) ==
    \/ toLowerCase(s) = <<"i", "n", "s", "i", "g", "h", "t">>
    \/ toLowerCase(s) = <<"h", "e", "r", "e", " ", "i", "s", " ", "t", "h", "e", " ", "i", "n", "s", "i", "g", "h", "t">>

\* position of the first colon of the line without its markup, 0 if none
FirstColon(line) ==
    LET cl == cleanLine(line)
    IN  IF \E i \in 1..Len(cl) : cl[i] = ":"
        THEN CHOOSE i \in 1..Len(cl) : cl[i] = ":" /\ \A j \in 1..(i - 1) : cl[j] # ":"
        ELSE 0

\* what stands before the first colon, and everything after it
PairTitle(line) == trim(SubSeq(cleanLine(line), 1, FirstColon(line) - 1))

PairContent(line) == trim(SubSeq(cleanLine(line), FirstColon(line) + 1, Len(cleanLine(line))))

\* a line 'title: content' with a non-empty title and a content longer than
\* 10 characters, neither being a placeholder
QualifiesAsPair(line) ==
    /\ FirstColon(line) > 0
    /\ Len(PairTitle(line)) > 0
    /\ Len(PairContent(line)) > 10
    /\ ~IsPlaceholder(PairTitle(line))
    /\ ~IsPlaceholder(PairContent(line))

\* C16: among the lines that survive the noise filter the extractor returns
\* the first one that splits at its first colon into a non-empty title and a
\* content longer than 10 characters, neither a placeholder, and every pair
\* it returns has a non-empty title.
C16_AcceptanceRule ==
    applied = "extractActionableInsight" =>
        LET lines == candidateLines(argument)
            q     == {i \in 1..Len(lines) : QualifiesAsPair(lines[i])}
        IN  /\ q # {} =>
                   Extracted = [title   |-> slice(PairTitle(lines[MinOf(q)]), 255),
                                content |-> slice(PairContent(lines[MinOf(q)]), 10000)]
            /\ Extracted # Null => Len(Extracted.title) > 0

\* the text is the single line 'T: C'
IsPairLine(T, C) ==
    /\ Len(argument) = Len(T) + 2 + Len(C)
    /\ argument = T \o <<":", " ">> \o C

\* titles and contents of single lines, the long ones included; none has
\* white space or markup at its ends, and no title has a colon
RoundTripTitles == PairTitles \cup {LongTitle}

RoundTripContents == PairContents \cup {FullContent, LongContent}

\* C17: for a single line 'T: C' that matches no noise pattern, where T is
\* not empty, not longer than 255 characters and not a placeholder, and C is
\* longer than 10 characters, not longer than 10000 and not a placeholder,
\* the extractor returns title T and content C: the split is at the first
\* colon only, later colons stay in the content.
C17_GrammarRoundTrip ==
    applied = "extractActionableInsight" =>
        \A T \in RoundTripTitles, C \in RoundTripContents :
            ( /\ IsPairLine(T, C)
              /\ Len(T) > 0 /\ Len(T) <= 255 /\ ~IsPlaceholder(T)
              /\ Len(C) > 10 /\ Len(C) <= 10000 /\ ~IsPlaceholder(C) )
                => Extracted = [title |-> T, content |-> C]

C17_Witness ==
    /\ applied = "extractActionableInsight"
    /\ argument = <<"S", "l", "e", "e", "p", " ", "P", "a", "t", "t", "e", "r", "n", ":", " ", "Y", "o", "u", "r", " ", "m", "o", "o", "d", " ", "h", "a", "s", " ", "b", "e", "e", "n", " ", "l", "o", "w", " ", "(", "2", "-", "3", "/", "5", ")", " ", "f", "o", "r", " ", "3", " ", "d", "a", "y", "s", ".", " ", "T", "r", "y", ":", " ", "1", ")", " ", "X", ",", " ", "2", ")", " ", "Y", ",", " ", "3", ")", " ", "Z", ".">>
    /\ Extracted = [title   |-> <<"S", "l", "e", "e", "p", " ", "P", "a", "t", "t", "e", "r", "n">>,
                    content |-> <<"Y", "o", "u", "r", " ", "m", "o", "o", "d", " ", "h", "a", "s", " ", "b", "e", "e", "n", " ", "l", "o", "w", " ", "(", "2", "-", "3", "/", "5", ")", " ", "f", "o", "r", " ", "3", " ", "d", "a", "y", "s", ".", " ", "T", "r", "y", ":", " ", "1", ")", " ", "X", ",", " ", "2", ")", " ", "Y", ",", " ", "3", ")", " ", "Z", ".">>]

\* C17 as stated: any non-empty T and any C longer than 10 characters
C17_RoundTripAnyTitle ==
    applied = "extractActionableInsight" =>
        \A T \in RoundTripTitles, C \in RoundTripContents :
            (IsPairLine(T, C) /\ Len(T) > 0 /\ Len(C) > 10)
                => Extracted = [title |-> T, content |-> C]

\* the text is empty or made of one or two noise lines
OnlyNoise ==
    \/ argument = <<>>
    \/ argument \in NoiseLines
    \/ \E a, b \in NoiseLines : argument = a \o <<"\n">> \o b

\* C18: for a text made only of noise lines (time stamps, time zone
\* abbreviations, preambles such as 'Here are 3 insights:', standalone
\* 'Insight:' lines), and for the empty text, the extractor returns null.
C18_NoiseYieldsNull ==
    (applied = "extractActionableInsight" /\ OnlyNoise) => Extracted = Null

\* the line says that there is nothing to report
HasNoDataPhrase(line) ==
    \E phrase \in {<<"n", "o", " ", "a", "c", "t", "i", "o", "n", "a", "b", "l", "e", " ", "h", "e", "a", "l", "t", "h", " ", "i", "n", "s", "i", "g", "h", "t">>, <<"n", "o", " ", "h", "e", "a", "l", "t", "h", " ", "o", "r", " ", "l", "i", "f", "e", "s", "t", "y", "l", "e", " ", "d", "a", "t", "a">>,
                   <<"n", "o", "t", " ", "e", "n", "o", "u", "g", "h", " ", "d", "a", "t", "a">>, <<"i", "n", "s", "u", "f", "f", "i", "c", "i", "e", "n", "t", " ", "d", "a", "t", "a">>, <<"n", "o", " ", "d", "a", "t", "a">>,
                   <<"h", "e", "r", "e", " ", "i", "s", " ", "t", "h", "e", " ", "i", "n", "s", "i", "g", "h", "t">>} :
        includes(toLowerCase(line), phrase)

\* a line the fallback may return: longer than 20 characters without its
\* markup, and without such a phrase
IsFallbackLine(line) == Len(cleanLine(line)) > 20 /\ ~HasNoDataPhrase(line)

C19_WitnessEscape ==
    /\ applied = "extractActionableInsight"
    /\ argument = <<"N", "o", " ", "a", "c", "t", "i", "o", "n", "a", "b", "l", "e", " ", "h", "e", "a", "l", "t", "h", " ", "i", "n", "s", "i", "g", "h", "t", " ", "c", "o", "u", "l", "d", " ", "b", "e", " ", "g", "e", "n", "e", "r", "a", "t", "e", "d", " ", "f", "o", "r", " ", "t", "h", "i", "s", " ", "d", "a", "y", ".">>
    /\ Extracted = Null

\* the record the pipeline stores for the text
Persisted == returned.record

\* C20: every record the pipeline stores has a title of at most 255 and a
\* content of at most 10000 characters; a content of 20,000 characters is
\* stored as exactly its first 10,000, both for a 'Title: content' line and
\* for a plain line, a content of exactly 10,000 is stored whole, and a
\* title of 300 characters is stored as its first 255.
C20_LengthBounds ==
    applied = "extractActionableInsight" =>
        /\ Len(Persisted.title) <= 255
        /\ Len(Persisted.content) <= 10000
        /\ argument = <<"S", "l", "e", "e", "p", " ", "P", "a", "t", "t", "e", "r", "n", ":", " ">> \o LongContent =>
               /\ Persisted.title = <<"S", "l", "e", "e", "p", " ", "P", "a", "t", "t", "e", "r", "n">>
               /\ Persisted.content = SubSeq(LongContent, 1, 10000)
        /\ argument = LongContent =>
               /\ Persisted.title = <<"H", "e", "a", "l", "t", "h", " ", "I", "n", "s", "i", "g", "h", "t">>
               /\ Persisted.content = SubSeq(LongContent, 1, 10000)
        /\ argument = <<"S", "l", "e", "e", "p", " ", "P", "a", "t", "t", "e", "r", "n", ":", " ">> \o FullContent =>
               Persisted.content = FullContent
        /\ argument = LongTitle \o <<":", " ", "D", "r", "i", "n", "k", " ", "m", "o", "r", "e", " ", "w", "a", "t", "e", "r", " ", "e", "v", "e", "r", "y", " ", "d", "a", "y">> =>
               /\ Persisted.title = SubSeq(LongTitle, 1, 255)
               /\ Persisted.content = <<"D", "r", "i", "n", "k", " ", "m", "o", "r", "e", " ", "w", "a", "t", "e", "r", " ", "e", "v", "e", "r", "y", " ", "d", "a", "y">>

C20_Witness ==
    /\ applied = "extractActionableInsight"
    /\ Len(LongContent) = 20000
    /\ argument = <<"S", "l", "e", "e", "p", " ", "P", "a", "t", "t", "e", "r", "n", ":", " ">> \o LongContent
    /\ Persisted.title = <<"S", "l", "e", "e", "p", " ", "P", "a", "t", "t", "e", "r", "n">>
    /\ Len(Persisted.content) = 10000

C20_WitnessFallback ==
    /\ applied = "extractActionableInsight"
    /\ argument = LongContent
    /\ Persisted.title = <<"H", "e", "a", "l", "t", "h", " ", "I", "n", "s", "i", "g", "h", "t">>
    /\ Len(Persisted.content) = 10000

\* the categories a record can have
Categories == {"Sleep", "Exercise", "Hydration", "Mood", "Symptoms", "Medication", "General"}

\* the titles of the two fixed records
FixedTitles == {<<"N", "o", " ", "H", "e", "a", "l", "t", "h", " ", "D", "a", "t", "a">>, <<"N", "o", " ", "A", "c", "t", "i", "o", "n", "a", "b", "l", "e", " ", "I", "n", "s", "i", "g", "h", "t">>}

\* C21: every row of health_insights, whichever route wrote it, has one of
\* the seven categories, and the rows 'No Health Data' and 'No Actionable
\* Insight' have 'General'; so has every record built from a text the
\* extractor was applied to.
C21_ClosedCategorySet ==
    /\ \A k \in 1..Len(health_insights) :
           /\ health_insights[k].category \in Categories
           /\ health_insights[k].title \in FixedTitles
                  => health_insights[k].category = "General"
    /\ applied = "extractActionableInsight" =>
           /\ returned.record.category \in Categories
           /\ returned.record.title \in FixedTitles => returned.record.category = "General"

C21_Witness ==
    /\ \E k \in 1..Len(health_insights) :
           /\ health_insights[k].user_id = 1
           /\ health_insights[k].title = <<"N", "o", " ", "A", "c", "t", "i", "o", "n", "a", "b", "l", "e", " ", "I", "n", "s", "i", "g", "h", "t">>
           /\ health_insights[k].category = "General"
    /\ \E k \in 1..Len(health_insights) :
           /\ health_insights[k].user_id = 1
           /\ health_insights[k].category = "Sleep"

C21_WitnessNoData ==
    \E k \in 1..Len(health_insights) :
        /\ health_insights[k].title = <<"N", "o", " ", "H", "e", "a", "l", "t", "h", " ", "D", "a", "t", "a">>
        /\ health_insights[k].category = "General"

\* the stored text of a text that was sent: the empty one is stored as null
StoredText(sent) == IF sent = "" THEN Null ELSE sent

\* the rows are the symptoms of the body, one by one
SameSymptoms(rows, sent) ==
    /\ Len(rows) = Len(sent)
    /\ \A k \in 1..Len(sent) :
           /\ rows[k].name = sent[k].name
           /\ rows[k].severity = sent[k].severity
           /\ rows[k].notes = StoredText(sent[k].notes)

\* the rows are the medications of the body, one by one
SameMedications(rows, sent) ==
    /\ Len(rows) = Len(sent)
    /\ \A k \in 1..Len(sent) :
           /\ rows[k].name = sent[k].name
           /\ rows[k].dosage = StoredText(sent[k].dosage)
           /\ rows[k].taken = sent[k].taken

\* the POST /api/logs requests that were answered with 201
CreatedLogs == {p \in Procs : posts[p].pc = "done" /\ posts[p].status = 201}

\* C22: whatever POST /api/logs requests were made, overlapping or not,
\* daily_logs has at most one row per (user_id, date); right after the
\* commit of a request answered 201 that row has the mood and the notes of
\* the request, and the symptoms and medications of the log are exactly
\* those of the request (empty notes and dosage stored as null).
C22_DailyLogUpsert ==
    /\ \A i, j \in 1..Len(daily_logs) :
           (daily_logs[i].user_id = daily_logs[j].user_id
                /\ daily_logs[i].date = daily_logs[j].date) => i = j
    /\ \A p \in CreatedLogs :
           /\ Len(posts[p].after.logs) = 1
           /\ posts[p].after.logs[1].mood = posts[p].body.mood
           /\ posts[p].after.logs[1].notes = posts[p].body.notes
           /\ SameSymptoms(posts[p].after.symptoms, posts[p].body.symptoms)
           /\ SameMedications(posts[p].after.medications, posts[p].body.medications)

\* two overlapping requests for the day of the earlier log, both answered
\* 201 with different bodies
C22_Witness ==
    /\ CreatedLogs = {1, 2}
    /\ posts[1].userId = 1 /\ posts[2].userId = 1
    /\ posts[1].date = <<"2", "0", "2", "4", "-", "0", "1", "-", "1", "5">> /\ posts[2].date = <<"2", "0", "2", "4", "-", "0", "1", "-", "1", "5">>
    /\ posts[1].overlapped \/ posts[2].overlapped
    /\ posts[1].body # posts[2].body
    /\ Len(posts[1].body.symptoms) > 0 /\ Len(posts[2].body.symptoms) > 0
    /\ Len(daily_logs) = 1

\* two overlapping requests for a day without a log: one is answered 201,
\* the other ran into the unique key
C22_WitnessInsertRace ==
    /\ faults = 0
    /\ posts[1].status = 201 /\ posts[2].status = 500
    /\ posts[1].userId = posts[2].userId /\ posts[1].date = posts[2].date
    /\ posts[2].overlapped
    /\ Len(daily_logs) = 1

\* the runs of all requests, finished or not
AllRuns == {RunAt(pk) : pk \in FinishedRuns} \cup {calls[p].run : p \in Procs}

\* the user has a log on the date, in either table
HasLogOn(userId, date) ==
    \/ \E i \in 1..Len(daily_logs) :
           daily_logs[i].user_id = userId /\ daily_logs[i].date = date
    \/ \E i \in 1..Len(lifestyle_logs) :
           lifestyle_logs[i].user_id = userId /\ lifestyle_logs[i].date = date

\* C23: a run of generate or of the history loop that starts when a record
\* exists for its (user, date) reads no log table, makes no completion call
\* and writes no row, whatever logs were written in the meantime, and, its
\* SELECT having returned, it returns a stored record of that user and
\* day; the fixed records are kept like any other.
C23_CacheNeverRefreshed ==
    /\ \A r \in AllRuns :
           r.stored > 0 => r.logReads = 0 /\ r.completions = 0 /\ r.writes = 0
    /\ \A pk \in FinishedRuns :
           (RunAt(pk).stored > 0 /\ ~RunAt(pk).storeError) =>
               /\ RunAt(pk).outcome = "returned"
               /\ RunAt(pk).record \in
                      {health_insights[i] :
                          i \in RowsFor(calls[pk[1]].userId, RunAt(pk).date)}

\* generate stored 'No Health Data' for a day; then the user logged that
\* day, which put it among the dates of the history; the history returned
\* the stored record for it
C23_Witness ==
    /\ logWrites > 0
    /\ HasLogOn(1, TargetDate)
    /\ \E p \in FinishedGenerate :
           /\ calls[p].run.writes = 1
           /\ calls[p].body.title = <<"N", "o", " ", "H", "e", "a", "l", "t", "h", " ", "D", "a", "t", "a">>
           /\ \E q \in HistoryCalls :
               \E k \in 1..Len(calls[q].runs) :
                 /\ calls[q].pc = "done"
                 /\ calls[q].runs[k].date = TargetDate
                 /\ calls[q].runs[k].stored > 0
                 /\ calls[q].runs[k].completions = 0
                 /\ calls[q].runs[k].record = calls[p].body

\* the text begins with the line
FirstLineIs(line) ==
    /\ Len(argument) >= Len(line)
    /\ SubSeq(argument, 1, Len(line)) = line
    /\ Len(argument) > Len(line) => argument[Len(line) + 1] = "\n"

\* C24: when the first line of the completion follows the grammar
\* 'Title: <pattern>: <observation>', the record the pipeline stores has
\* the pattern as its title and the observation as its content.
C24_GrammarTitle ==
    (applied = "extractActionableInsight"
        /\ FirstLineIs(<<"*", "*", "T", "i", "t", "l", "e", ":", " ", "H", "e", "a", "d", "a", "c", "h", "e", " ", "P", "a", "t", "t", "e", "r", "n", ":", " ", "p", "a", "i", "n", " ", "o", "n", " ", "4", " ", "d", "a", "y", "s", "*", "*">>))
    => /\ Persisted.title = <<"H", "e", "a", "d", "a", "c", "h", "e", " ", "P", "a", "t", "t", "e", "r", "n">>
       /\ Persisted.content = <<"p", "a", "i", "n", " ", "o", "n", " ", "4", " ", "d", "a", "y", "s">>

\* the legacy requests that compared their insights with the stored ones
\* and were answered 200
LegacyCompared ==
    {p \in Procs : /\ calls[p].route = "legacy" /\ calls[p].pc = "done"
                   /\ calls[p].status = 200 /\ calls[p].existing # Null}

\* C25: the legacy route inserts the parsed insights whenever their contents
\* differ from the user's most recent stored ones, also when the user has
\* none or fewer stored than were parsed, and skips the insertion only when
\* every new content equals the corresponding stored one.
C25_LegacyChangeCheck ==
    \A p \in LegacyCompared :
        LET existing == calls[p].existing
            insights == calls[p].results
            same     == /\ Len(existing) = Len(insights)
                        /\ \A index \in 1..Len(insights) :
                               existing[index] = insights[index].content
        IN  /\ ~same => calls[p].run.writes = Len(insights)
            /\ same => calls[p].run.writes = 0

\* the dates a finished history request went through, in order
RunDates(p) == [k \in 1..Len(calls[p].runs) |-> calls[p].runs[k].date]

\* title, content and category of the records of a response
Shown(records) ==
    [k \in 1..Len(records) |->
        [title |-> records[k].title, content |-> records[k].content,
         category |-> records[k].category]]

\* the first request is a history request in which every date gave a
\* record, the second one repeats it, for the same user and days, and no
\* query failed; no log write in between shows as the same dates
HistoryRepeated ==
    /\ faults = 0
    /\ calls[1].route = "history" /\ calls[1].pc = "done"
    /\ calls[2].route = "history" /\ calls[2].pc = "done"
    /\ calls[1].userId = calls[2].userId
    /\ calls[1].days = calls[2].days
    /\ Len(calls[1].runs) > 0
    /\ \A k \in 1..Len(calls[1].runs) : calls[1].runs[k].outcome = "returned"
    /\ RunDates(2) = RunDates(1)

\* C26: a history request repeated right after one in which no date
\* failed, with the same days and the same log dates, makes no completion
\* call, writes no row and returns records for the same dates with the
\* same title, content and category.
C26_HistoryConverges ==
    HistoryRepeated =>
        /\ \A k \in 1..Len(calls[2].runs) :
               /\ calls[2].runs[k].found
               /\ calls[2].runs[k].completions = 0
               /\ calls[2].runs[k].writes = 0
               /\ calls[2].runs[k].outcome = "returned"
        /\ calls[2].status = 200
        /\ Len(calls[2].results) = Len(calls[2].runs)
        /\ Shown(calls[2].results) = Shown(calls[1].results)

\* no log was written; the first request generated a record from a
\* completion, the second returned it
C26_Witness ==
    /\ HistoryRepeated
    /\ logWrites = 0
    /\ calls[1].runs[1].completions = 1 /\ calls[1].runs[1].writes = 1
    /\ calls[1].results[1].title = <<"S", "l", "e", "e", "p", " ", "P", "a", "t", "t", "e", "r", "n">>
    /\ calls[2].runs[1].completions = 0
    /\ Shown(calls[2].results) = Shown(calls[1].results)

\* a log was written before the first request, which went through two dates
C26_WitnessTwoDates ==
    /\ HistoryRepeated
    /\ Len(calls[1].runs) = 2 /\ Len(calls[1].results) = 2
    /\ \A k \in 1..2 : calls[1].runs[k].writes = 1 /\ calls[2].runs[k].writes = 0

\* the record is a row of the table for the user and the day
StoredFor(record, userId, date) ==
    \E i \in RowsFor(userId, date) : health_insights[i] = record

\* C27: the record a generate request is answered with, and every record of
\* the result of a history request, is a row of the table for its user and
\* day when the response is sent (and from the moment it is put into the
\* result); a date that a history request left out because of a failure
\* had no row written by that request.
C27_ReturnedImpliesPersisted ==
    /\ \A p \in FinishedGenerate :
           calls[p].status = 200 =>
               StoredFor(calls[p].body, calls[p].userId, calls[p].date)
    /\ \A p \in HistoryCalls :
           /\ \A k \in 1..Len(calls[p].results) :
                  StoredFor(calls[p].results[k], calls[p].userId,
                            SubSeq(calls[p].results[k].generated_date, 1, 10))
           /\ \A k \in 1..Len(calls[p].runs) :
                  /\ calls[p].runs[k].outcome = "returned" =>
                         StoredFor(calls[p].runs[k].record, calls[p].userId,
                                   calls[p].runs[k].date)
                  /\ calls[p].runs[k].outcome = "failed" => calls[p].runs[k].writes = 0

\* a history request left a date out after its completion request failed;
\* the next request found no row for that date and generated its record
C27_Witness ==
    /\ calls[1].route = "history" /\ calls[1].pc = "done"
    /\ Len(calls[1].runs) = 1 /\ Len(calls[1].results) = 0
    /\ calls[1].runs[1].outcome = "failed"
    /\ calls[1].runs[1].completions = 1
    /\ calls[2].route = "history" /\ calls[2].pc = "done"
    /\ Len(calls[2].runs) = 1
    /\ calls[2].runs[1].date = calls[1].runs[1].date
    /\ calls[2].runs[1].stored = 0
    /\ calls[2].runs[1].writes = 1
    /\ Len(calls[2].results) = 1
    /\ StoredFor(calls[2].results[1], 1, calls[2].runs[1].date)

\* the runs of the history requests, finished or not
HistoryRuns ==
    UNION {{calls[p].runs[k] : k \in 1..Len(calls[p].runs)} \cup {calls[p].run} :
              p \in HistoryCalls}

\* C28: every date a history request processes is a log date of the user
\* and lies in its own window, so a run of the loop that found no record
\* never finds both window queries empty, and the history route never
\* creates the 'No Health Data' record.
C28_HistoryNeverNoData ==
    /\ \A r \in HistoryRuns :
           /\ r.windowEmpty # "yes"
           /\ r.windowStart # <<>> =>
                  (~StrLess(r.date, r.windowStart) /\ HasLogOn(1, r.date))
           /\ r.record # Null /\ r.writes > 0 => r.record.title # <<"N", "o", " ", "H", "e", "a", "l", "t", "h", " ", "D", "a", "t", "a">>
    /\ \A p \in HistoryCalls :
           calls[p].pending # Null => calls[p].pending.title # <<"N", "o", " ", "H", "e", "a", "l", "t", "h", " ", "D", "a", "t", "a">>

\* a history run found no record, read the two windows and generated
C28_Witness ==
    \E p \in HistoryCalls :
        \E k \in 1..Len(calls[p].runs) :
            /\ calls[p].runs[k].stored = 0
            /\ calls[p].runs[k].windowEmpty = "no"
            /\ calls[p].runs[k].logReads = 2
            /\ calls[p].runs[k].writes = 1
            /\ calls[p].runs[k].record.title = <<"S", "l", "e", "e", "p", " ", "P", "a", "t", "t", "e", "r", "n">>

\* fetchData found the latest log newer than the last insight and has the
\* answer of its generate request
GenerateAnswered == page.generateResponse # Null

\* C29: when fetchData finds the latest log timestamp newer than the last
\* insight time, its generate request is accepted and yields an insight
\* record, after which the history is fetched and shown; and whether or not
\* generation succeeds, a call that ends without a failed history or chart
\* request shows the sorted history answer, with isLoading and isRefreshing
\* both false.
C29_RefreshGenerates ==
    /\ GenerateAnswered =>
           /\ page.generateResponse.status = 200
           /\ page.generateResponse.data \in PageRecords
    /\ page.pc = "done" =>
           /\ ~page.isLoading /\ ~page.isRefreshing
           /\ page.error = Null => page.insights = sortedInsights(page.historyResponse)

\* the part of C29 about the end of the call: however the generate request
\* ends, the page shows the history answer and both flags are false
C29_PageSettles ==
    page.pc = "done" =>
        /\ ~page.isLoading /\ ~page.isRefreshing
        /\ page.error = Null => page.insights = sortedInsights(page.historyResponse)

\* a refresh with new data ended after a rejected generate request, showing
\* two records in the order of their dates
C29_RejectedThenShown ==
    /\ page.pc = "done" /\ page.error = Null
    /\ GenerateAnswered /\ page.generateResponse.status = 400
    /\ Len(page.insights) = 2
    /\ page.insights # page.historyResponse
    /\ page.lastInsightTime = 0

\* every date a finished history request processed gave a record
NoDateFailed(p) ==
    \A k \in 1..Len(calls[p].runs) : calls[p].runs[k].outcome = "returned"

\* C30: whatever integer the days parameter is, negative or larger than
\* the number of log dates, a history request of a user with a log date,
\* none of whose dates failed, answers with a non-empty sequence whose last
\* record is the one of the most recent log date; for a user with no log
\* date, or when the log-date lookup fails, it answers with an empty
\* sequence and has run nothing: no completion request and no write.
C30_HistoryNeverEmpty ==
    \A p \in HistoryCalls :
        calls[p].pc = "done" =>
            LET all == AllLogDates(calls[p].userId)
            IN  /\ calls[p].status = 200
                /\ all = <<>> => calls[p].dates = <<>>
                /\ calls[p].dates = <<>> => (all = <<>> \/ faults > 0)
                /\ calls[p].dates = <<>> =>
                       /\ calls[p].results = <<>>
                       /\ calls[p].runs = <<>>
                       /\ health_insights \in
                              {<<OtherUsersInsight>>,
                               <<OtherUsersInsight>> \o storedInsights(1,
                                   LongHistoryDates \ {FormatDay(DefaultDays + 1)})}
                /\ all # <<>> /\ calls[p].dates # <<>> /\ NoDateFailed(p) =>
                       /\ calls[p].results # <<>>
                       /\ calls[p].runs[Len(calls[p].runs)].date = all[Len(all)]
                       /\ calls[p].results[Len(calls[p].results)]
                              = calls[p].runs[Len(calls[p].runs)].record
                       /\ calls[p].results[Len(calls[p].results)] \in
                              {health_insights[i] : i \in RowsFor(calls[p].userId, all[Len(all)])}

\* days=-9 over three log dates: the slice is empty and the latest date alone
\* is processed and returned
C30_Witness ==
    \E p \in HistoryCalls :
        /\ calls[p].pc = "done" /\ calls[p].days = 0 - 9
        /\ Len(AllLogDates(1)) = 3 /\ calls[p].userId = 1
        /\ calls[p].dates = <<<<"2", "0", "2", "4", "-", "0", "1", "-", "0", "5">>>>
        /\ Len(calls[p].results) = 1
        /\ calls[p].runs[1].completions = 1

\* days=-1 over three log dates: the first date is dropped, two are returned
C30_WitnessNegativeOne ==
    \E p \in HistoryCalls :
        /\ calls[p].pc = "done" /\ calls[p].days = 0 - 1
        /\ Len(AllLogDates(1)) = 3 /\ calls[p].userId = 1
        /\ Len(calls[p].results) = 2

\* the log-date lookup failed for a user with log dates: empty answer
C30_WitnessLookupFailed ==
    \E p \in HistoryCalls :
        /\ calls[p].pc = "done" /\ AllLogDates(calls[p].userId) # <<>>
        /\ calls[p].dates = <<>> /\ calls[p].results = <<>> /\ faults = 1

\* ------------------------------------------------------------------------
\* Specifications
\* ------------------------------------------------------------------------

\* the steps of the requests in flight and the log writes
Step ==
    \/ \E p \in Procs : GenerateCheck(p)
    \/ \E p \in Procs : GenerateDaily(p)
    \/ \E p \in Procs : GenerateLifestyle(p)
    \/ \E p \in Procs : GenerateFetch(p)
    \/ \E p \in Procs : GenerateInsert(p)
    \/ \E p \in Procs : HistoryDailyDates(p)
    \/ \E p \in Procs : HistoryLifestyleDates(p)
    \/ \E p \in Procs : HistoryCheck(p)
    \/ \E p \in Procs : HistoryDaily(p)
    \/ \E p \in Procs : HistoryLifestyle(p)
    \/ \E p \in Procs : HistoryFetch(p)
    \/ \E p \in Procs : HistoryInsert(p)
    \/ \E u \in Users, d \in LogDates : PostLog(u, d)
    \/ \E u \in Users, d \in LogDates : PostLifestyle(u, d)

\* requests overlap, up to MaxInFlight at a time
Next ==
    \/ \E p \in Procs, u \in Users, d \in RequestDates : GenerateStart(p, u, d, MaxInFlight)
    \/ \E p \in Procs, u \in Users, q \in DaysParams : HistoryStart(p, u, q, MaxInFlight)
    \/ Step

Spec == Init /\ [][Next]_vars

\* each request finishes before the next one starts
NextSeq ==
    \/ \E p \in Procs, u \in Users, d \in RequestDates : GenerateStart(p, u, d, 1)
    \/ \E p \in Procs, u \in Users, q \in DaysParams : HistoryStart(p, u, q, 1)
    \/ Step

SpecSeq == Init /\ [][NextSeq]_vars


\* one history request over the log histories of InitDates
NextDates ==
    \/ \E u \in Users, q \in DaysParamsWide : HistoryStart(1, u, q, 1)
    \/ \E p \in Procs : HistoryDailyDates(p)
    \/ \E p \in Procs : HistoryLifestyleDates(p)
    \/ \E p \in Procs : HistoryCheck(p)
    \/ \E p \in Procs : HistoryDaily(p)
    \/ \E p \in Procs : HistoryLifestyle(p)
    \/ \E p \in Procs : HistoryFetch(p)
    \/ \E p \in Procs : HistoryInsert(p)

SpecDates == InitDates /\ [][NextDates]_vars

\* the four insight operations, each request finishing before the next
\* one starts, and the log writes
NextInsights ==
    \/ \E p \in Procs, u \in Users, d \in RequestDates : GenerateStart(p, u, d, 1)
    \/ \E p \in Procs, u \in Users, q \in DaysParams : HistoryStart(p, u, q, 1)
    \/ \E p \in Procs, u \in Users : LegacyStart(p, u, 1)
    \/ \E p \in Procs, u \in Users : LatestInsight(p, u, 1)
    \/ \E p \in Procs : LegacyLogs(p)
    \/ \E p \in Procs : LegacyFetch(p)
    \/ \E p \in Procs : LegacySelect(p)
    \/ \E p \in Procs : LegacyInsert(p)
    \/ Step

SpecInsights == Init /\ [][NextInsights]_vars

\* the classifier or the extractor is applied to the chosen text
NextText ==
    \/ Classify
    \/ Extract

SpecText == InitText /\ [][NextText]_vars

\* POST /api/logs requests, overlapping
NextLogs ==
    \/ \E p \in Procs, userId \in {1, 2}, date \in LogRequestDates, body \in LogBodies :
           LogStart(p, userId, date, body)
    \/ \E p \in Procs :
           \/ LogSelect(p)
           \/ LogUpdate(p)
           \/ LogInsert(p)
           \/ LogItems(p)
           \/ LogCommit(p)
           \/ LogRollback(p)

SpecLogs == InitLogs /\ [][NextLogs]_vars


\* the Health Insights page loads and refreshes
NextPage ==
    \/ FetchData
    \/ \E timestamp \in LatestTimestamps, ok \in BOOLEAN : PageTimestamp(timestamp, ok)
    \/ \E response \in generateResponses(generateInsight) : PageGenerate(response)
    \/ \E data \in HistoryResponses, ok \in BOOLEAN : PageHistory(data, ok)
    \/ \E ok \in BOOLEAN : PageCharts(ok)

SpecPage == Init /\ [][NextPage]_vars
====
